---- MODULE Spec2Model ----
(***************************************************************************)
(* A model of tinydecred's accounts module (src/accounts.py): the Account  *)
(* object with its address ledgers, cursor, transaction/UTXO bookkeeping   *)
(* and open/close key lifecycle.                                           *)
(*                                                                         *)
(* Every method of Account is an operator from the account (and the key    *)
(* buffers it owns) to a result [a, err, ret]: the account after the call, *)
(* the class of the exception the call raised (NoErr when it returned) and *)
(* the value it returned.  The actions apply the operators to the state.   *)
(***************************************************************************)
EXTENDS Integers, Sequences, FiniteSets, TLC

VARIABLES
    pubKeyEncrypted,    \* Account.pubKeyEncrypted
    privKeyEncrypted,   \* Account.privKeyEncrypted
    name,               \* Account.name
    net,                \* Account.net
    lastExternalIndex,  \* Account.lastExternalIndex
    lastInternalIndex,  \* Account.lastInternalIndex
    externalAddresses,  \* Account.externalAddresses
    internalAddresses,  \* Account.internalAddresses
    cursor,             \* Account.cursor
    balance,            \* Account.balance
    mempool,            \* Account.mempool
    txs,                \* Account.txs
    utxos,              \* Account.utxos
    privKey,            \* Account.privKey
    extPub,             \* Account.extPub
    intPub,             \* Account.intPub
    mem,                \* the key buffers (ByteArray) the account's keys live in
    orphans,            \* buffers that lost their last reference while non-zero
    log,                \* the warnings the last call logged
    op,                 \* the last method called
    err,                \* the exception class it raised, or NoErr
    ret,                \* the value it returned
    returned,           \* addresses getNextPaymentAddress has returned so far
    cm,                 \* the call of createNewAccountManager in progress: its
                        \* position and its local variables, None without a call
    am,                 \* the AccountManager in use, None without one
    tw                  \* the TinyWallet application object with the threads
                        \* that call it, None without one

vars == <<pubKeyEncrypted, privKeyEncrypted, name, net, lastExternalIndex,
          lastInternalIndex, externalAddresses, internalAddresses, cursor,
          balance, mempool, txs, utxos, privKey, extPub, intPub, mem, orphans,
          log, op, err, ret, returned, cm, am, tw>>

-----------------------------------------------------------------------------
(* Bounds of the exploration. *)
MaxAccounts == 2

\* the external address list is grown up to this length
MaxAddrs == 3
\* the internal address list is grown up to this length
MaxChange == 1
\* the largest gap passed to generateGapAddresses
MaxGap == 2
\* the highest chain tip passed to calcBalance
MaxTip == 3
\* the most addresses given transaction activity
MaxTxAddrs == 2

-----------------------------------------------------------------------------
(* Module constants. *)

EXTERNAL_BRANCH == 0
INTERNAL_BRANCH == 1
DEFAULT_ACCOUNT_NAME == "default"

\* An address is <<kind, branch, index>>: the base-58 string derived at
\* (branch, index).  Distinct positions give distinct strings.
Address(branch, idx) == <<"addr", branch, idx>>
CrazyAddress == <<"CRAZYADDRESS", 0, 0>>
\* an address of somebody else's wallet
ForeignAddress == <<"foreign", 0, 0>>

\* Python's None, and an optional value: <<>> or <<v>>.
None == <<>>
Some(v) == <<v>>

\* Exception classes.
NoErr == "NoErr"
AttributeError == "AttributeError"      \* attribute access on None, or a missing attribute
TypeError == "TypeError"                \* calling an object that is not callable
KeyError == "KeyError"
IndexError == "IndexError"              \* list index out of range
Exception == "Exception"                \* raise Exception(...)
ParameterRangeError == "ParameterRangeError"
DecryptionError == "DecryptionError"

\* What a call gives back.
Result(a, e, r) == [a |-> a, err |-> e, ret |-> r]
Ok(a, r) == Result(a, NoErr, r)
Raise(a, e) == Result(a, e, None)

EmptyMap == [x \in {} |-> None]
\* the last element of the range of a set of integers, 0 for none
RECURSIVE SetMax(_)
SetMax(S) == IF S = {} THEN 0
             ELSE LET x == CHOOSE y \in S : TRUE
                      m == SetMax(S \ {x})
                  IN IF x > m THEN x ELSE m
Max2(x, y) == IF x > y THEN x ELSE y
\* list.index(v): the first position (from 0) of v in list; -1 stands for ValueError
IndexOf(list, v) ==
    IF \E i \in 1..Len(list) : list[i] = v
    THEN (CHOOSE i \in 1..Len(list) : list[i] = v /\ \A j \in 1..(i-1) : list[j] # v) - 1
    ELSE -1
Contains(list, v) == \E i \in 1..Len(list) : list[i] = v

-----------------------------------------------------------------------------
(* The extended keys (crypto.ExtendedKey) and their buffers.               *)
(*                                                                         *)
(* An account key is known by what its derivations do: the branches whose  *)
(* child derivation is invalid, and the (branch, index) positions whose    *)
(* address derivation is out of range.  Derivation is deterministic.       *)

XKey(invalidChildren, rangeErrors) ==
    [invalidChildren |-> invalidChildren, rangeErrors |-> rangeErrors]

\* the account keys the exploration starts from
AcctKeys ==
    { XKey({}, {}),
      XKey({}, {<<EXTERNAL_BRANCH, 1>>, <<EXTERNAL_BRANCH, 2>>}),
      XKey({}, {<<EXTERNAL_BRANCH, 0>>, <<INTERNAL_BRANCH, 0>>}),
      XKey({EXTERNAL_BRANCH}, {}),
      XKey({INTERNAL_BRANCH}, {}) }

CryptoKeyPriv == "cryptoKeyPriv"
CryptoKeyPub == "cryptoKeyPub"
WrongKey == "wrongKey"

\* key.encrypt(plaintext): for an extended key the plaintext is its string,
\* which tells the key and whether it is the private or the public one
Encrypt(key, plaintext) == [encryptedWith |-> key, plain |-> plaintext]

\* An extended key held in memory: the account key it descends from, the
\* path from it, and whether it carries private material.
ExtendedKey(xkey, path, isPrivate) == [xkey |-> xkey, path |-> path, isPrivate |-> isPrivate]

\* the ciphertexts of an account key: its public string under the public
\* crypto key, its private string under the private one
PubEncrypted(xkey) == Encrypt(CryptoKeyPub, ExtendedKey(xkey, <<>>, FALSE))
PrivEncrypted(xkey) == Encrypt(CryptoKeyPriv, ExtendedKey(xkey, <<>>, TRUE))

\* crypto.decodeExtendedKey(net, pw, blob): decrypt blob with pw and parse it
decodeExtendedKey(n, pw, blob) ==
    IF pw = blob.encryptedWith
    THEN [err |-> NoErr, key |-> blob.plain]
    ELSE [err |-> DecryptionError, key |-> None]

\* ExtendedKey.neuter(): a new public extended key
neuter(k) == ExtendedKey(k.xkey, k.path, FALSE)

\* ExtendedKey.child(i)
child(k, i) ==
    IF \/ (Len(k.path) = 0 /\ i \in k.xkey.invalidChildren)
       \/ (Len(k.path) = 1 /\ <<k.path[1], i>> \in k.xkey.rangeErrors)
    THEN [err |-> ParameterRangeError, key |-> None]
    ELSE [err |-> NoErr, key |-> ExtendedKey(k.xkey, Append(k.path, i), k.isPrivate)]

\* ExtendedKey.deriveChildAddress(i, net) on a branch key
deriveChildAddress(k, i, n) ==
    LET c == child(k, i)
    IN IF c.err # NoErr THEN [err |-> c.err, addr |-> None]
       ELSE [err |-> NoErr, addr |-> Address(k.path[1], i)]

\* The key buffers: each extended key has a key and a pubKey ByteArray.
BufIds == { "privKey.key", "privKey.pubKey", "pubX.key", "pubX.pubKey",
            "extPub.key", "extPub.pubKey", "intPub.key", "intPub.pubKey" }
BufsOf(who) == IF who = "privKey" THEN {"privKey.key", "privKey.pubKey"}
               ELSE IF who = "pubX" THEN {"pubX.key", "pubX.pubKey"}
               ELSE IF who = "extPub" THEN {"extPub.key", "extPub.pubKey"}
               ELSE {"intPub.key", "intPub.pubKey"}

\* a new key object `who` is built: its buffers hold key bytes; the buffers
\* of the object it replaces stay as they were, unreferenced
Alloc(a, who) ==
    [a EXCEPT !.mem = [b \in BufIds |-> IF b \in BufsOf(who) THEN "set" ELSE @[b]],
              !.orphans = @ \cup {b \in BufsOf(who) : a.mem[b] = "set"}]

\* ByteArray.zero() on both buffers of `who`
Zero(a, who) ==
    [a EXCEPT !.mem = [b \in BufIds |-> IF b \in BufsOf(who) /\ @[b] = "set" THEN "zero" ELSE @[b]]]

-----------------------------------------------------------------------------
(* Balance and Account construction. *)

\* Balance.__init__; avail is the attribute calcBalance assigns
Balance(total, available) == [total |-> total, available |-> available, avail |-> None]

\* Account.__init__, with the process memory the account's keys will use
Account(pubEnc, privEnc, nm) ==
    [ pubKeyEncrypted |-> pubEnc,
      privKeyEncrypted |-> privEnc,
      name |-> nm,
      net |-> None,
      lastExternalIndex |-> -1,
      lastInternalIndex |-> -1,
      externalAddresses |-> <<>>,
      internalAddresses |-> <<>>,
      cursor |-> 0,
      balance |-> Balance(0, 0),
      mempool |-> EmptyMap,
      txs |-> EmptyMap,
      utxos |-> EmptyMap,
      privKey |-> None,
      extPub |-> None,
      intPub |-> None,
      mem |-> [b \in BufIds |-> "free"],
      orphans |-> {},
      log |-> {} ]

\* the account as the variables hold it
Self ==
    [ pubKeyEncrypted |-> pubKeyEncrypted,
      privKeyEncrypted |-> privKeyEncrypted,
      name |-> name,
      net |-> net,
      lastExternalIndex |-> lastExternalIndex,
      lastInternalIndex |-> lastInternalIndex,
      externalAddresses |-> externalAddresses,
      internalAddresses |-> internalAddresses,
      cursor |-> cursor,
      balance |-> balance,
      mempool |-> mempool,
      txs |-> txs,
      utxos |-> utxos,
      privKey |-> privKey,
      extPub |-> extPub,
      intPub |-> intPub,
      mem |-> mem,
      orphans |-> orphans,
      log |-> {} ]

IsAccount(a) ==
    /\ pubKeyEncrypted = a.pubKeyEncrypted
    /\ privKeyEncrypted = a.privKeyEncrypted
    /\ name = a.name
    /\ net = a.net
    /\ lastExternalIndex = a.lastExternalIndex
    /\ lastInternalIndex = a.lastInternalIndex
    /\ externalAddresses = a.externalAddresses
    /\ internalAddresses = a.internalAddresses
    /\ cursor = a.cursor
    /\ balance = a.balance
    /\ mempool = a.mempool
    /\ txs = a.txs
    /\ utxos = a.utxos
    /\ privKey = a.privKey
    /\ extPub = a.extPub
    /\ intPub = a.intPub
    /\ mem = a.mem
    /\ orphans = a.orphans
    /\ log = a.log

\* the call `method` ended with result r
Store(method, r) ==
    /\ pubKeyEncrypted' = r.a.pubKeyEncrypted
    /\ privKeyEncrypted' = r.a.privKeyEncrypted
    /\ name' = r.a.name
    /\ net' = r.a.net
    /\ lastExternalIndex' = r.a.lastExternalIndex
    /\ lastInternalIndex' = r.a.lastInternalIndex
    /\ externalAddresses' = r.a.externalAddresses
    /\ internalAddresses' = r.a.internalAddresses
    /\ cursor' = r.a.cursor
    /\ balance' = r.a.balance
    /\ mempool' = r.a.mempool
    /\ txs' = r.a.txs
    /\ utxos' = r.a.utxos
    /\ privKey' = r.a.privKey
    /\ extPub' = r.a.extPub
    /\ intPub' = r.a.intPub
    /\ mem' = r.a.mem
    /\ orphans' = r.a.orphans
    /\ log' = r.a.log
    /\ op' = method
    /\ err' = r.err
    /\ ret' = r.ret

-----------------------------------------------------------------------------
(* Account: transaction activity. *)

\* Balance.__tojson__ and Balance.__fromjson__
Balance_tojson(b) == [total |-> b.total, available |-> b.available]
Balance_fromjson(obj) == Balance(obj.total, obj.available)

\* Account.__tojson__: the record of the fields it writes, the balance
\* encoded in turn
Account_tojson(a) ==
    [ pubKeyEncrypted |-> a.pubKeyEncrypted,
      privKeyEncrypted |-> a.privKeyEncrypted,
      lastExternalIndex |-> a.lastExternalIndex,
      lastInternalIndex |-> a.lastInternalIndex,
      name |-> a.name,
      externalAddresses |-> a.externalAddresses,
      internalAddresses |-> a.internalAddresses,
      txs |-> a.txs,
      utxos |-> a.utxos,
      balance |-> Balance_tojson(a.balance) ]

\* Account.__fromjson__(obj): obj["db"] raises KeyError on a record without
\* that key; the account decoded carries the extra attribute db
Account_fromjson(obj) ==
    IF "db" \notin DOMAIN obj
    THEN [err |-> KeyError, acct |-> None]
    ELSE [err |-> NoErr,
          acct |-> Some([Account(obj.pubKeyEncrypted, obj.privKeyEncrypted, obj.name)
                            EXCEPT !.lastExternalIndex = obj.lastExternalIndex,
                                   !.lastInternalIndex = obj.lastInternalIndex,
                                   !.externalAddresses = obj.externalAddresses,
                                   !.internalAddresses = obj.internalAddresses,
                                   !.txs = obj.txs,
                                   !.utxos = obj.utxos,
                                   !.balance = Balance_fromjson(obj.balance)])]

\* Account.addrTxs(addr)
addrTxs(a, addr) ==
    IF addr \in DOMAIN a.txs THEN Ok(a, Some(a.txs[addr])) ELSE Ok(a, Some(<<>>))

\* addTx without the test for a txid already listed
addTx_noDedup(a, addr, txid) ==
    LET t1 == IF addr \notin DOMAIN a.txs
              THEN [x \in DOMAIN a.txs \cup {addr} |-> IF x = addr THEN <<>> ELSE a.txs[x]]
              ELSE a.txs
    IN Ok([a EXCEPT !.txs = [t1 EXCEPT ![addr] = Append(@, txid)]], None)

\* Account.addTx(addr, txid)
addTx(a, addr, txid) ==
    LET t1 == IF addr \notin DOMAIN a.txs
              THEN [x \in DOMAIN a.txs \cup {addr} |-> IF x = addr THEN <<>> ELSE a.txs[x]]
              ELSE a.txs
        t2 == IF ~Contains(t1[addr], txid)
              THEN [t1 EXCEPT ![addr] = Append(@, txid)]
              ELSE t1
    IN Ok([a EXCEPT !.txs = t2], None)

-----------------------------------------------------------------------------
(* Account: unspent outputs and balance. *)

\* api.UTXO: height and maturity are optional
UTXO(address, txid, vout, satoshis, height, maturity) ==
    [address |-> address, txid |-> txid, vout |-> vout, satoshis |-> satoshis,
     height |-> height, maturity |-> maturity]

\* UTXO.makeKey(txid, vout), UTXO.key()
makeKey(txid, vout) == <<txid, vout>>
key(u) == makeKey(u.txid, u.vout)

\* UTXO.isConfirmed()
isConfirmed(u) == u.height # None

\* Account.addUTXO(utxo): the account has no attribute unconfirmedUTXOs
addUTXO(a, utxo) ==
    IF "unconfirmedUTXOs" \notin DOMAIN a
    THEN Raise(a, AttributeError)
    ELSE Ok([a EXCEPT !.unconfirmedUTXOs =
                [k \in DOMAIN @ \cup {key(utxo)} |-> IF k = key(utxo) THEN utxo ELSE @[k]]],
            None)

\* Account.getUTXO(txid, vout)
getUTXO(a, txid, vout) ==
    LET uKey == makeKey(txid, vout)
    IN Ok(a, IF uKey \in DOMAIN a.utxos THEN Some(a.utxos[uKey]) ELSE None)

\* Account.utxoscan(): the UTXOs the generator yields
utxoscan(a) == {a.utxos[k] : k \in DOMAIN a.utxos}

\* Account.UTXOsForTXID(txid): the account has no attribute unconfirmedUTXOs;
\* value is the keys of the UTXOs found
UTXOsForTXID(a, txid) ==
    IF "unconfirmedUTXOs" \notin DOMAIN a
    THEN [err |-> AttributeError, value |-> {}]
    ELSE [err |-> NoErr,
          value |-> {k \in DOMAIN a.unconfirmedUTXOs : a.unconfirmedUTXOs[k].txid = txid}]

\* pop removing every output of the transaction of k
pop_wholeTx(d, k) == [x \in {y \in DOMAIN d : y[1] # k[1]} |-> d[x]]

\* dict.pop(k, None)
pop(d, k) == [x \in DOMAIN d \ {k} |-> d[x]]

\* Account.spendUTXOs(utxos): pop the key of each utxo of the list
RECURSIVE spendUTXOs(_, _)
spendUTXOs(a, us) ==
    IF us = <<>> THEN Ok(a, None)
    ELSE spendUTXOs([a EXCEPT !.utxos = pop(@, key(Head(us)))], Tail(us))

\* Account.spendTxidVout(txid, vout)
spendTxidVout(a, txid, vout) ==
    LET k == makeKey(txid, vout)
    IN Ok([a EXCEPT !.utxos = pop(@, k)],
          IF k \in DOMAIN a.utxos THEN Some(a.utxos[k]) ELSE None)

\* Account.addressesOfInterest(): ext[i] for i in range(max(cursor - 10, 0),
\* cursor + 1) raises IndexError at the first i past the end of the list
addressesOfInterest(a) ==
    LET ofUtxos == {u.address : u \in utxoscan(a)}
        ext == a.externalAddresses
        first == Max2(a.cursor - 10, 0)
    IN IF \E i \in first..a.cursor : i >= Len(ext)
       THEN Raise(a, IndexError)
       ELSE Ok(a, Some(ofUtxos \cup {ext[i + 1] : i \in first..a.cursor}))

\* a transaction (api.Transaction): txid() and looksLikeCoinbase()
Tx(txid, coinbase) == [txid |-> txid, looksLikeCoinbase |-> coinbase]

\* net.CoinbaseMaturity, scaled to the heights explored
CoinbaseMaturity == 2

\* Account.addMempoolTx(tx)
addMempoolTx(a, tx) ==
    Ok([a EXCEPT !.mempool =
           [k \in DOMAIN @ \cup {tx.txid} |-> IF k = tx.txid THEN tx ELSE @[k]]],
       None)

\* the loop of confirmTx over the UTXOs found: each gets the height and,
\* for a coinbase, the maturity; self.net is None on an account never opened
confirmFound(a, found, tx, blockHeight) ==
    IF found = {} THEN Ok(a, None)
    ELSE IF tx.looksLikeCoinbase /\ a.net = None
    THEN LET k == CHOOSE x \in found : TRUE
         IN Raise([a EXCEPT !.unconfirmedUTXOs[k].height = Some(blockHeight)],
                  AttributeError)
    ELSE Ok([a EXCEPT !.unconfirmedUTXOs =
                [k \in DOMAIN @ |->
                    IF k \in found
                    THEN [@[k] EXCEPT !.height = Some(blockHeight),
                                      !.maturity = IF tx.looksLikeCoinbase
                                                   THEN Some(blockHeight + CoinbaseMaturity)
                                                   ELSE @]
                    ELSE @[k]]],
            None)

\* confirmTx looking for the UTXOs before it touches the mempool
confirmTx_findsFirst(a, tx, blockHeight) ==
    LET us == UTXOsForTXID(a, tx.txid)
    IN IF us.err # NoErr THEN Raise(a, us.err)
       ELSE confirmFound([a EXCEPT !.mempool = pop(@, tx.txid)], us.value, tx, blockHeight)

\* Account.confirmTx(tx, blockHeight)
confirmTx(a, tx, blockHeight) ==
    LET txid == tx.txid
        a1 == [a EXCEPT !.mempool = pop(@, txid)]
        us == UTXOsForTXID(a1, txid)
    IN IF us.err # NoErr THEN Raise(a1, us.err)
       ELSE confirmFound(a1, us.value, tx, blockHeight)

\* Account.calcBalance(tipHeight).  `for utxo in self.utxos` iterates the keys
\* of the dict, which are strings: the first utxo.satoshis of the loop raises
\* AttributeError, before the balance is assigned.  With no utxo the loop
\* body never runs, and the sums are assigned to balance.total and to
\* balance.avail.
calcBalance(a, tipHeight) ==
    LET tot == 0
        avail == 0
    IN IF DOMAIN a.utxos # {}
       THEN Raise(a, AttributeError)
       ELSE LET b == [a.balance EXCEPT !.total = tot, !.avail = Some(avail)]
            IN Ok([a EXCEPT !.balance = b], Some(b))

-----------------------------------------------------------------------------
(* Account: address generation. *)

\* appendExternal forgetting to advance the index
appendExternal_keepsIndex(a, addr, idx) ==
    [a EXCEPT !.externalAddresses = Append(@, addr)]

\* appendExternal moving the cursor to the new address
appendExternal_movesCursor(a, addr, idx) ==
    [a EXCEPT !.externalAddresses = Append(@, addr), !.lastExternalIndex = idx,
              !.cursor = idx]

\* self.externalAddresses.append(addr); self.lastExternalIndex = idx
appendExternal(a, addr, idx) ==
    [a EXCEPT !.externalAddresses = Append(@, addr), !.lastExternalIndex = idx]

\* generateNextPaymentAddress letting the range error of the derivation out
generateNextPaymentAddress_propagates(a) ==
    IF Len(a.externalAddresses) # a.lastExternalIndex + 1
    THEN Raise(a, Exception)
    ELSE LET idx == a.lastExternalIndex + 1
         IN IF a.extPub = None
            THEN Raise(a, AttributeError)
            ELSE LET d == deriveChildAddress(a.extPub[1], idx, a.net)
                 IN IF d.err # NoErr THEN Raise(a, d.err)
                    ELSE Ok(appendExternal(a, d.addr, idx), Some(d.addr))

\* Account.generateNextPaymentAddress()
generateNextPaymentAddress(a) ==
    IF Len(a.externalAddresses) # a.lastExternalIndex + 1
    THEN Raise(a, Exception)
    ELSE LET idx == a.lastExternalIndex + 1
         IN IF a.extPub = None
            THEN Raise(a, AttributeError)
            ELSE LET d == deriveChildAddress(a.extPub[1], idx, a.net)
                     crazy == d.err = ParameterRangeError
                     addr == IF crazy THEN CrazyAddress ELSE d.addr
                     a1 == IF crazy THEN [a EXCEPT !.log = @ \cup {"crazy address generated"}]
                           ELSE a
                 IN Ok(appendExternal(a1, addr, idx), Some(addr))

\* while len(self.externalAddresses) <= bound: self.generateNextPaymentAddress()
\* (the loops of getNextPaymentAddress and generateGapAddresses); an
\* exception of the generator ends the loop and the caller
RECURSIVE generateWhileShort(_, _)
generateWhileShort(a, bound) ==
    IF Len(a.externalAddresses) <= bound
    THEN LET g == generateNextPaymentAddress(a)
         IN IF g.err # NoErr THEN Raise(g.a, g.err)
            ELSE generateWhileShort(g.a, bound)
    ELSE Ok(a, None)

\* self.externalAddresses(self.cursor): a call of a list object
callList(list, i) == [err |-> TypeError, value |-> None]

\* Account.getNextPaymentAddress()
getNextPaymentAddress(a) ==
    LET a1 == [a EXCEPT !.cursor = @ + 1]
        w == generateWhileShort(a1, a1.cursor)
    IN IF w.err # NoErr THEN w
       ELSE LET c == callList(w.a.externalAddresses, w.a.cursor)
            IN IF c.err # NoErr THEN Raise(w.a, c.err)
               ELSE Ok(w.a, c.value)

\* highestUsed without the scan of txs
highestUsed_noScan(a) == 0

\* the loop of generateGapAddresses over the keys of txs: the highest
\* position in externalAddresses of an address with activity, from 0
highestUsed(a) ==
    SetMax({0} \cup {i \in 0..(Len(a.externalAddresses) - 1) :
                        \E addr \in DOMAIN a.txs : IndexOf(a.externalAddresses, addr) = i})

\* Account.generateGapAddresses(gap)
generateGapAddresses(a, gap) ==
    LET a1 == IF a.extPub = None
              THEN [a EXCEPT !.log = @ \cup
                       {"attempting to generate gap addresses on a closed account"}]
              ELSE a
        tip == highestUsed(a1) + gap
    IN generateWhileShort(a1, tip - 1)

\* the append of a change address that advances the external index as well
appendInternal_advancesBoth(a, addr, idx) ==
    [a EXCEPT !.internalAddresses = Append(@, addr), !.lastInternalIndex = idx,
              !.lastExternalIndex = @ + 1]

\* self.internalAddresses.append(addr); self.lastInternalIndex = idx
appendInternal(a, addr, idx) ==
    [a EXCEPT !.internalAddresses = Append(@, addr), !.lastInternalIndex = idx]

\* Account.getChangeAddress()
getChangeAddress(a) ==
    IF Len(a.internalAddresses) # a.lastInternalIndex + 1
    THEN Raise(a, Exception)
    ELSE LET idx == a.lastInternalIndex + 1
         IN IF a.intPub = None
            THEN Raise(a, AttributeError)
            ELSE LET d == deriveChildAddress(a.intPub[1], idx, a.net)
                     crazy == d.err = ParameterRangeError
                     addr == IF crazy THEN CrazyAddress ELSE d.addr
                     a1 == IF crazy THEN [a EXCEPT !.log = @ \cup {"crazy address generated"}]
                           ELSE a
                 IN Ok(appendInternal(a1, addr, idx), Some(addr))

-----------------------------------------------------------------------------
(* Account: the open/close lifecycle and key recovery. *)

\* Account.privateExtendedKey(net, pw)
privateExtendedKey(a, n, pw) == decodeExtendedKey(n, pw, a.privKeyEncrypted)

\* Account.publicExtendedKey(net, pw)
publicExtendedKey(a, n, pw) == decodeExtendedKey(n, pw, a.pubKeyEncrypted)

\* Account.open(net, pw)
open(a, n, pw) ==
    LET a1 == [a EXCEPT !.net = Some(n)]
        d == privateExtendedKey(a1, n, pw)
    IN IF d.err # NoErr THEN Raise(a1, d.err)
       ELSE
       LET a2 == [Alloc(a1, "privKey") EXCEPT !.privKey = Some(d.key)]
           pubX == neuter(d.key)
           a3 == Alloc(a2, "pubX")
           e == child(pubX, EXTERNAL_BRANCH)
       IN IF e.err # NoErr THEN Raise(a3, e.err)
          ELSE
          LET a4 == [Alloc(a3, "extPub") EXCEPT !.extPub = Some(e.key)]
              i == child(pubX, INTERNAL_BRANCH)
          IN IF i.err # NoErr THEN Raise(a4, i.err)
             ELSE Ok([Alloc(a4, "intPub") EXCEPT !.intPub = Some(i.key)], None)

\* Account.close()
close(a) ==
    LET dropped == [a EXCEPT !.privKey = None, !.extPub = None, !.intPub = None]
    IN IF a.privKey # None
       THEN LET a1 == Zero(a, "privKey")
            IN IF a1.extPub = None THEN Raise(a1, AttributeError)
               ELSE
               LET a2 == Zero(a1, "extPub")
               IN IF a2.intPub = None THEN Raise(a2, AttributeError)
                  ELSE
                  LET a3 == Zero(a2, "intPub")
                  IN Ok([a3 EXCEPT !.privKey = None, !.extPub = None, !.intPub = None],
                        None)
       ELSE Ok(dropped, None)

\* branchAndIndex giving the external branch for an internal address too
branchAndIndex_externalBranchOnly(a, addr) ==
    IF Contains(a.externalAddresses, addr)
    THEN <<Some(EXTERNAL_BRANCH), Some(IndexOf(a.externalAddresses, addr))>>
    ELSE IF Contains(a.internalAddresses, addr)
    THEN <<Some(EXTERNAL_BRANCH), Some(IndexOf(a.internalAddresses, addr))>>
    ELSE <<None, None>>

\* Account.branchAndIndex(addr): <<branch, idx>>, None for neither list
branchAndIndex(a, addr) ==
    IF Contains(a.externalAddresses, addr)
    THEN <<Some(EXTERNAL_BRANCH), Some(IndexOf(a.externalAddresses, addr))>>
    ELSE IF Contains(a.internalAddresses, addr)
    THEN <<Some(INTERNAL_BRANCH), Some(IndexOf(a.internalAddresses, addr))>>
    ELSE <<None, None>>

\* Account.getPrivKeyForAddress(addr)
\* crypto.privKeyFromBytes(privKey.key): the signing key of the extended key
\* at <<branch, idx>> under the account key
privKeyFromBytes(k) == <<"privKey", k.path[1], k.path[2]>>

getPrivKeyForAddress(a, addr) ==
    LET bi == branchAndIndex(a, addr)
    IN IF bi[1] = None THEN Raise(a, Exception)
       ELSE IF a.privKey = None THEN Raise(a, AttributeError)
       ELSE LET branchKey == child(a.privKey[1], bi[1][1])
            IN IF branchKey.err # NoErr THEN Raise(a, branchKey.err)
               ELSE LET k == child(branchKey.key, bi[2][1])
                    IN IF k.err # NoErr THEN Raise(a, k.err)
                       ELSE Ok(a, Some(privKeyFromBytes(k.key)))

-----------------------------------------------------------------------------
(* The account under its address and lifecycle operations. *)

(***************************************************************************)
(* newMaster, checkBranchKeys, AccountManager and createNewAccountManager  *)
(***************************************************************************)
AssertionError == "AssertionError"          \* a failed assert
KeyLengthException == "KeyLengthException"  \* class KeyLengthException

\* the order of the curve; the 256-bit number of the code is scaled down to
\* one the model checker's integers hold
MAX_SECRET_INT == 7

\* DCR.MinSeedBytes and DCR.MaxSeedBytes
MinSeedBytes == 16
MaxSeedBytes == 64

\* A seed: its length in bytes, the left half of its HMAC-SHA512 read as an
\* integer, and the account keys number 0 that descend from it for the two
\* coin types.
Seed(len, secretInt, legacy, slip0044) ==
    [len |-> len, secretInt |-> secretInt, legacy |-> legacy, slip0044 |-> slip0044]

\* newMaster(seed, network)
newMaster(seed, network) ==
    IF ~(seed.len >= MinSeedBytes /\ seed.len <= MaxSeedBytes)
    THEN [err |-> AssertionError, key |-> None]
    ELSE IF seed.secretInt > MAX_SECRET_INT \/ seed.secretInt <= 0
    THEN [err |-> KeyLengthException, key |-> None]
    ELSE [err |-> NoErr,
          key |-> ExtendedKey([seed |-> seed, network |-> network], <<>>, TRUE)]

\* coinTypes(params): the legacy and the SLIP0044 coin type
coinTypes(params) == <<"legacy", "slip0044">>

\* ExtendedKey.deriveCoinTypeKey(coinType) on the root key
deriveCoinTypeKey(root, coinType) ==
    ExtendedKey([seed |-> root.xkey.seed, coinType |-> coinType], <<>>, TRUE)

\* ExtendedKey.deriveAccountKey(0) on a coin-type key
deriveAccountKey(coinTypeKey, account) ==
    ExtendedKey(IF coinTypeKey.xkey.coinType = "legacy"
                THEN coinTypeKey.xkey.seed.legacy
                ELSE coinTypeKey.xkey.seed.slip0044,
                <<>>, TRUE)

\* checkBranchKeys(acctKey): the error of the first branch child that fails
checkBranchKeys(acctKey) ==
    LET e == child(acctKey, EXTERNAL_BRANCH)
    IN IF e.err # NoErr THEN e.err ELSE child(acctKey, INTERNAL_BRANCH).err

\* crypto.SecretKey(passphrase)
SecretKey(passphrase) == [secretKeyOf |-> passphrase]

\* SecretKey.params(): the parameters the key was derived with
params(secretKey) == "KDFParams"

\* crypto.SecretKey.rekey(pw, params): the key of the passphrase pw
rekey(pw, kdfParams) == SecretKey(pw)

\* SecretKey.decrypt(ciphertext)
decrypt(secretKey, blob) ==
    IF secretKey = blob.encryptedWith
    THEN [err |-> NoErr, plain |-> Some(blob.plain)]
    ELSE [err |-> DecryptionError, plain |-> None]

\* list[i] of Python: the place in 1..Len(list) that index i names, counted
\* from the end for a negative i, None when out of range
listIndex(list, i) ==
    IF i >= 0 /\ i < Len(list) THEN Some(i + 1)
    ELSE IF i < 0 /\ -i <= Len(list) THEN Some(Len(list) + i + 1)
    ELSE None

\* Account.paymentAddress(): self.externalAddresses[self.cursor]
paymentAddress(a) ==
    LET i == listIndex(a.externalAddresses, a.cursor)
    IN IF i = None THEN Raise(a, IndexError)
       ELSE Ok(a, Some(a.externalAddresses[i[1]]))

\* AccountManager.__init__
AccountManager(cryptoKeyPubEnc, cryptoKeyPrivEnc, cryptoKeyScriptEnc, coinTypeLegacyPubEnc, coinTypeLegacyPrivEnc, coinTypeSLIP0044PubEnc, coinTypeSLIP0044PrivEnc, baseAccount, privParams, pubParams) ==
    [ cryptoKeyPubEnc |-> cryptoKeyPubEnc,
      cryptoKeyPrivEnc |-> cryptoKeyPrivEnc,
      cryptoKeyScriptEnc |-> cryptoKeyScriptEnc,
      coinTypeLegacyPubEnc |-> coinTypeLegacyPubEnc,
      coinTypeLegacyPrivEnc |-> coinTypeLegacyPrivEnc,
      coinTypeSLIP0044PubEnc |-> coinTypeSLIP0044PubEnc,
      coinTypeSLIP0044PrivEnc |-> coinTypeSLIP0044PrivEnc,
      baseAccount |-> baseAccount,
      privParams |-> privParams,
      pubParams |-> pubParams,
      watchingOnly |-> FALSE,
      accounts |-> <<>> ]

\* AccountManager.addAccount(account)
addAccount(manager, account) == [manager EXCEPT !.accounts = Append(@, account)]

\* AccountManager.__tojson__: the record of the fields it writes, the
\* accounts encoded in turn
AccountManager_tojson(m) ==
    [ cryptoKeyPubEnc |-> m.cryptoKeyPubEnc,
      cryptoKeyPrivEnc |-> m.cryptoKeyPrivEnc,
      cryptoKeyScriptEnc |-> m.cryptoKeyScriptEnc,
      coinTypeLegacyPubEnc |-> m.coinTypeLegacyPubEnc,
      coinTypeLegacyPrivEnc |-> m.coinTypeLegacyPrivEnc,
      coinTypeSLIP0044PubEnc |-> m.coinTypeSLIP0044PubEnc,
      coinTypeSLIP0044PrivEnc |-> m.coinTypeSLIP0044PrivEnc,
      baseAccount |-> Account_tojson(m.baseAccount),
      privParams |-> m.privParams,
      pubParams |-> m.pubParams,
      watchingOnly |-> m.watchingOnly,
      accounts |-> [i \in 1..Len(m.accounts) |-> Account_tojson(m.accounts[i])] ]

\* AccountManager.__fromjson__(obj): the accounts inside are decoded first,
\* and an exception of theirs ends the decoding
AccountManager_fromjson(obj) ==
    LET base == Account_fromjson(obj.baseAccount)
        accts == [i \in 1..Len(obj.accounts) |-> Account_fromjson(obj.accounts[i])]
    IN IF base.err # NoErr THEN [err |-> base.err, manager |-> None]
       ELSE IF \E i \in 1..Len(accts) : accts[i].err # NoErr
       THEN [err |-> accts[CHOOSE i \in 1..Len(accts) : accts[i].err # NoErr].err,
             manager |-> None]
       ELSE [err |-> NoErr,
             manager |-> Some([AccountManager(obj.cryptoKeyPubEnc, obj.cryptoKeyPrivEnc,
                                              obj.cryptoKeyScriptEnc,
                                              obj.coinTypeLegacyPubEnc,
                                              obj.coinTypeLegacyPrivEnc,
                                              obj.coinTypeSLIP0044PubEnc,
                                              obj.coinTypeSLIP0044PrivEnc,
                                              base.acct[1], obj.privParams, obj.pubParams)
                                  EXCEPT !.watchingOnly = obj.watchingOnly,
                                         !.accounts = [i \in 1..Len(accts) |->
                                                          accts[i].acct[1]]])]

\* the outcome of a call on the manager
ManagerResult(m, e, r) == [m |-> m, err |-> e, ret |-> r]

\* AccountManager.account(idx)
account(m, idx) ==
    LET i == listIndex(m.accounts, idx)
    IN IF i = None THEN ManagerResult(m, IndexError, None)
       ELSE ManagerResult(m, NoErr, Some([index |-> i[1] - 1, account |-> m.accounts[i[1]]]))

\* openAccount opening the account with whatever the decryption gave
openAccount_noAuthCheck(m, acct, n, pw) ==
    LET userSecret == rekey(pw, m.privParams)
        d == decrypt(userSecret, m.cryptoKeyPrivEnc)
        cryptKeyPriv == IF d.err # NoErr THEN WrongKey ELSE d.plain[1]
        i == listIndex(m.accounts, acct)
    IN IF i = None THEN ManagerResult(m, IndexError, None)
       ELSE LET r == open(m.accounts[i[1]], n, cryptKeyPriv)
                m1 == [m EXCEPT !.accounts[i[1]] = r.a]
            IN IF r.err # NoErr THEN ManagerResult(m1, r.err, None)
               ELSE ManagerResult(m1, NoErr, Some([index |-> i[1] - 1, account |-> r.a]))

\* openAccount opening the first account whatever the index
openAccount_firstAccount(m, acct, n, pw) ==
    LET userSecret == rekey(pw, m.privParams)
        cryptKeyPriv == decrypt(userSecret, m.cryptoKeyPrivEnc)
    IN IF cryptKeyPriv.err # NoErr THEN ManagerResult(m, cryptKeyPriv.err, None)
       ELSE IF listIndex(m.accounts, acct) = None THEN ManagerResult(m, IndexError, None)
       ELSE LET r == open(m.accounts[1], n, cryptKeyPriv.plain[1])
                m1 == [m EXCEPT !.accounts[1] = r.a]
            IN IF r.err # NoErr THEN ManagerResult(m1, r.err, None)
               ELSE ManagerResult(m1, NoErr, Some([index |-> 0, account |-> r.a]))

\* the bytes a ByteArray of key material holds: the key while it is set,
\* zeros once it was zeroed
bytesOf(buffer, k) == IF buffer = "set" THEN k ELSE "zeros"

\* the outcome of openAccount with the local ByteArray cryptKeyPriv as the
\* call leaves it: None when it was never made, else "set" or "zero"
OpenResult(m, e, r, buffer) == [m |-> m, err |-> e, ret |-> r, cryptKeyPriv |-> buffer]

\* AccountManager.openAccount(acct, net, pw); the account returned is given
\* with its position in accounts.  The ByteArray made of the decrypted
\* crypto key is "set" from line 624 on: no statement of the method zeroes it.
openAccount(m, acct, n, pw) ==
    LET userSecret == rekey(pw, m.privParams)
        cryptKeyPriv == decrypt(userSecret, m.cryptoKeyPrivEnc)
    IN IF cryptKeyPriv.err # NoErr THEN OpenResult(m, cryptKeyPriv.err, None, None)
       ELSE LET buffer == "set"
                i == listIndex(m.accounts, acct)
            IN IF i = None THEN OpenResult(m, IndexError, None, Some(buffer))
               ELSE LET r == open(m.accounts[i[1]], n,
                                  bytesOf(buffer, cryptKeyPriv.plain[1]))
                        m1 == [m EXCEPT !.accounts[i[1]] = r.a]
                    IN IF r.err # NoErr THEN OpenResult(m1, r.err, None, Some(buffer))
                       ELSE OpenResult(m1, NoErr,
                                       Some([index |-> i[1] - 1, account |-> r.a]),
                                       Some(buffer))

\* createNewAccountManager(seed, pubPassphrase, privPassphrase, chainParams)
\* at its first statement: pc is the statement to run next, the other fields
\* are the arguments and the local variables, None while unassigned.  A
\* ByteArray of key material is "set" or "zero".
Activation(seed, pubPassphrase, privPassphrase, chainParams) ==
    [ pc |-> "checkPassphrase",
      err |-> NoErr,
      seed |-> seed,
      pubPassphrase |-> pubPassphrase,
      privPassphrase |-> privPassphrase,
      chainParams |-> chainParams,
      root |-> None,
      coinTypeLegacyKeyPriv |-> None,
      coinTypeSLIP0044KeyPriv |-> None,
      acctKeyLegacyPriv |-> None,
      acctKeySLIP0044Priv |-> None,
      acctKeyLegacyPub |-> None,
      acctKeySLIP0044Pub |-> None,
      masterKeyPub |-> None,
      masterKeyPriv |-> None,
      cryptoKeyPub |-> None,
      cryptoKeyPriv |-> None,
      cryptoKeyScript |-> None,
      encrypted |-> None,
      baseAccount |-> None,
      zerothAccount |-> None,
      manager |-> None ]

\* the call ends with an exception / goes on at a statement
Raised(c, e) == [c EXCEPT !.pc = "raised", !.err = e]
Goto(c, label) == [c EXCEPT !.pc = label]

\* the passphrase check made on the public passphrase
checkPassphrase_checksPublic(c) ==
    IF Len(c.pubPassphrase) = 0 THEN Raised(c, Exception) ELSE Goto(c, "newMaster")

\* lines 648-649
checkPassphrase(c) ==
    IF Len(c.privPassphrase) = 0 THEN Raised(c, Exception) ELSE Goto(c, "newMaster")

\* line 652
deriveRoot(c) ==
    LET r == newMaster(c.seed, c.chainParams)
    IN IF r.err # NoErr THEN Raised(c, r.err)
       ELSE [c EXCEPT !.pc = "deriveKeys", !.root = Some(r.key)]

\* lines 655-663
deriveKeys(c) ==
    LET types == coinTypes(c.chainParams)
        legacy == deriveCoinTypeKey(c.root[1], types[1])
        slip0044 == deriveCoinTypeKey(c.root[1], types[2])
    IN [c EXCEPT !.pc = "checkBranchKeys",
                 !.coinTypeLegacyKeyPriv = Some(legacy),
                 !.coinTypeSLIP0044KeyPriv = Some(slip0044),
                 !.acctKeyLegacyPriv = Some(deriveAccountKey(legacy, 0)),
                 !.acctKeySLIP0044Priv = Some(deriveAccountKey(slip0044, 0))]

\* lines 667-668
checkKeys(c) ==
    LET e1 == checkBranchKeys(c.acctKeyLegacyPriv[1])
        e2 == checkBranchKeys(c.acctKeySLIP0044Priv[1])
    IN IF e1 # NoErr THEN Raised(c, e1)
       ELSE IF e2 # NoErr THEN Raised(c, e2)
       ELSE Goto(c, "neuter")

\* the neutering that takes the legacy account key for both public keys
neuterKeys_legacyForBoth(c) ==
    [c EXCEPT !.pc = "masterKeys",
              !.acctKeyLegacyPub = Some(neuter(c.acctKeyLegacyPriv[1])),
              !.acctKeySLIP0044Pub = Some(neuter(c.acctKeyLegacyPriv[1]))]

\* lines 671-673
neuterKeys(c) ==
    [c EXCEPT !.pc = "masterKeys",
              !.acctKeyLegacyPub = Some(neuter(c.acctKeyLegacyPriv[1])),
              !.acctKeySLIP0044Pub = Some(neuter(c.acctKeySLIP0044Priv[1]))]

\* lines 677-679
masterKeys(c) ==
    [c EXCEPT !.pc = "cryptoKeys",
              !.masterKeyPub = Some(SecretKey(c.pubPassphrase)),
              !.masterKeyPriv = Some(SecretKey(c.privPassphrase))]

\* lines 684-688
cryptoKeys(c) ==
    [c EXCEPT !.pc = "encrypt",
              !.cryptoKeyPub = Some("set"),
              !.cryptoKeyPriv = Some("set"),
              !.cryptoKeyScript = Some("set")]

\* lines 691-725
encryptKeys(c) ==
    LET pub == bytesOf(c.cryptoKeyPub[1], CryptoKeyPub)
        priv == bytesOf(c.cryptoKeyPriv[1], CryptoKeyPriv)
        script == bytesOf(c.cryptoKeyScript[1], "cryptoKeyScript")
    IN
    [c EXCEPT !.pc = "compare",
              !.encrypted = Some(
                [ cryptoKeyPubEnc |-> Encrypt(c.masterKeyPub[1], pub),
                  cryptoKeyPrivEnc |-> Encrypt(c.masterKeyPriv[1], priv),
                  cryptoKeyScriptEnc |-> Encrypt(c.masterKeyPriv[1], script),
                  coinTypeLegacyPubEnc |->
                      Encrypt(pub, neuter(c.coinTypeLegacyKeyPriv[1])),
                  coinTypeLegacyPrivEnc |->
                      Encrypt(priv, c.coinTypeLegacyKeyPriv[1]),
                  coinTypeSLIP0044PubEnc |->
                      Encrypt(pub, neuter(c.coinTypeSLIP0044KeyPriv[1])),
                  coinTypeSLIP0044PrivEnc |->
                      Encrypt(priv, c.coinTypeSLIP0044KeyPriv[1]),
                  acctPubLegacyEnc |-> Encrypt(pub, c.acctKeyLegacyPub[1]),
                  acctPrivLegacyEnc |-> Encrypt(priv, c.acctKeyLegacyPriv[1]),
                  acctPubSLIP0044Enc |-> Encrypt(pub, c.acctKeySLIP0044Pub[1]),
                  acctPrivSLIP0044Enc |->
                      Encrypt(priv, c.acctKeySLIP0044Priv[1]) ])]

\* lines 728-738: the child 1 of branch 0 from the private and the public key
compareKeys(c) ==
    LET branch0Priv == child(c.acctKeySLIP0044Priv[1], 0)
        branch0child1Priv == child(branch0Priv.key, 1)
        branch0Pub == child(c.acctKeySLIP0044Pub[1], 0)
        branch0child1Pub == child(branch0Pub.key, 1)
    IN IF branch0Priv.err # NoErr THEN Raised(c, branch0Priv.err)
       ELSE IF branch0child1Priv.err # NoErr THEN Raised(c, branch0child1Priv.err)
       ELSE IF branch0Pub.err # NoErr THEN Raised(c, branch0Pub.err)
       ELSE IF branch0child1Pub.err # NoErr THEN Raised(c, branch0child1Pub.err)
       ELSE Goto(c, "accounts")

\* lines 742-746
makeAccounts(c) ==
    [c EXCEPT !.pc = "open",
              !.baseAccount = Some(Account(c.encrypted[1].acctPubLegacyEnc,
                                           c.encrypted[1].acctPrivLegacyEnc,
                                           DEFAULT_ACCOUNT_NAME)),
              !.zerothAccount = Some(Account(c.encrypted[1].acctPubSLIP0044Enc,
                                             c.encrypted[1].acctPrivSLIP0044Enc,
                                             DEFAULT_ACCOUNT_NAME))]

\* a call on the zeroth account: the account as the call left it, with the
\* call's exception ending createNewAccountManager
onZeroth(c, r, label) ==
    IF r.err # NoErr
    THEN Raised([c EXCEPT !.zerothAccount = Some(r.a)], r.err)
    ELSE [c EXCEPT !.pc = label, !.zerothAccount = Some(r.a)]

\* line 748
openZeroth(c) ==
    onZeroth(c, open(c.zerothAccount[1], c.chainParams,
                     bytesOf(c.cryptoKeyPriv[1], CryptoKeyPriv)), "generate")

\* line 750
generateZeroth(c) ==
    onZeroth(c, generateNextPaymentAddress(c.zerothAccount[1]), "close")

\* line 752
closeZeroth(c) == onZeroth(c, close(c.zerothAccount[1]), "zero")

\* zeroKeys forgetting the script key
zeroKeys_skipsScript(c) ==
    [c EXCEPT !.pc = "manager", !.cryptoKeyPriv = Some("zero")]

\* lines 756-757
zeroKeys(c) ==
    [c EXCEPT !.pc = "manager",
              !.cryptoKeyPriv = Some("zero"),
              !.cryptoKeyScript = Some("zero")]

\* makeManager adding the base account to the list
makeManager_addsBase(c) ==
    LET e == c.encrypted[1]
        manager == AccountManager(e.cryptoKeyPubEnc, e.cryptoKeyPrivEnc,
                                  e.cryptoKeyScriptEnc, e.coinTypeLegacyPubEnc,
                                  e.coinTypeLegacyPrivEnc, e.coinTypeSLIP0044PubEnc,
                                  e.coinTypeSLIP0044PrivEnc, c.baseAccount[1],
                                  params(c.masterKeyPriv[1]), params(c.masterKeyPub[1]))
    IN [c EXCEPT !.pc = "done",
                 !.manager = Some(addAccount(manager, c.baseAccount[1]))]

\* lines 779-792
makeManager(c) ==
    LET e == c.encrypted[1]
        manager == AccountManager(e.cryptoKeyPubEnc, e.cryptoKeyPrivEnc,
                                  e.cryptoKeyScriptEnc, e.coinTypeLegacyPubEnc,
                                  e.coinTypeLegacyPrivEnc, e.coinTypeSLIP0044PubEnc,
                                  e.coinTypeSLIP0044PrivEnc, c.baseAccount[1],
                                  params(c.masterKeyPriv[1]), params(c.masterKeyPub[1]))
    IN [c EXCEPT !.pc = "done",
                 !.manager = Some(addAccount(manager, c.zerothAccount[1]))]

\* the statement of createNewAccountManager at c.pc
createNewAccountManager(c) ==
    CASE c.pc = "checkPassphrase" -> checkPassphrase(c)
      [] c.pc = "newMaster" -> deriveRoot(c)
      [] c.pc = "deriveKeys" -> deriveKeys(c)
      [] c.pc = "checkBranchKeys" -> checkKeys(c)
      [] c.pc = "neuter" -> neuterKeys(c)
      [] c.pc = "masterKeys" -> masterKeys(c)
      [] c.pc = "cryptoKeys" -> cryptoKeys(c)
      [] c.pc = "encrypt" -> encryptKeys(c)
      [] c.pc = "compare" -> compareKeys(c)
      [] c.pc = "accounts" -> makeAccounts(c)
      [] c.pc = "open" -> openZeroth(c)
      [] c.pc = "generate" -> generateZeroth(c)
      [] c.pc = "close" -> closeZeroth(c)
      [] c.pc = "zero" -> zeroKeys(c)
      [] c.pc = "manager" -> makeManager(c)

Networks == {"mainnet"}
Passwords == {CryptoKeyPriv, WrongKey}
TxIds == {"tx1", "tx2"}

\* the addresses a caller can name: those the account has, and a foreign one
ExternalSet == {externalAddresses[i] : i \in 1..Len(externalAddresses)}
InternalSet == {internalAddresses[i] : i \in 1..Len(internalAddresses)}
KnownAddresses == ExternalSet \cup InternalSet \cup {ForeignAddress}

\* the addresses a transaction of the chain can touch: the sentinel is no
\* address of the chain
ActiveAddresses == (ExternalSet \ {CrazyAddress}) \cup {ForeignAddress}

Init ==
    /\ \E k \in AcctKeys :
          IsAccount(Account(PubEncrypted(k), PrivEncrypted(k),
                            DEFAULT_ACCOUNT_NAME))
    /\ op = "__init__"
    /\ err = NoErr
    /\ ret = None
    /\ returned = {}
    /\ cm = None
    /\ am = None
    /\ tw = None

Open(n, pw) ==
    /\ Store("open", open(Self, n, pw))
    /\ UNCHANGED <<returned, cm, am, tw>>

Close ==
    /\ Store("close", close(Self))
    /\ UNCHANGED <<returned, cm, am, tw>>

GenerateNextPaymentAddress ==
    /\ Len(externalAddresses) < MaxAddrs
    /\ Store("generateNextPaymentAddress", generateNextPaymentAddress(Self))
    /\ UNCHANGED <<returned, cm, am, tw>>

GetNextPaymentAddress ==
    /\ cursor + 1 < MaxAddrs
    /\ LET r == getNextPaymentAddress(Self)
       IN /\ Store("getNextPaymentAddress", r)
          /\ returned' = IF r.err = NoErr THEN returned \cup {r.ret} ELSE returned
    /\ UNCHANGED <<cm, am, tw>>

GenerateGapAddresses(gap) ==
    /\ highestUsed(Self) + gap <= MaxAddrs
    /\ Store("generateGapAddresses", generateGapAddresses(Self, gap))
    /\ UNCHANGED <<returned, cm, am, tw>>

GetChangeAddress ==
    /\ Len(internalAddresses) < MaxChange
    /\ Store("getChangeAddress", getChangeAddress(Self))
    /\ UNCHANGED <<returned, cm, am, tw>>

GetPrivKeyForAddress(addr) ==
    /\ Store("getPrivKeyForAddress", getPrivKeyForAddress(Self, addr))
    /\ UNCHANGED <<returned, cm, am, tw>>

AddTx(addr, txid) ==
    /\ Cardinality(DOMAIN txs \cup {addr}) <= MaxTxAddrs
    /\ Store("addTx", addTx(Self, addr, txid))
    /\ UNCHANGED <<returned, cm, am, tw>>

Next ==
    \/ \E n \in Networks, pw \in Passwords : Open(n, pw)
    \/ Close
    \/ GenerateNextPaymentAddress
    \/ GetNextPaymentAddress
    \/ \E gap \in 0..MaxGap : GenerateGapAddresses(gap)
    \/ GetChangeAddress
    \/ \E addr \in KnownAddresses : GetPrivKeyForAddress(addr)
    \/ \E addr \in ActiveAddresses : AddTx(addr, "tx1")

Spec == Init /\ [][Next]_vars

-----------------------------------------------------------------------------
(* Properties of the address and lifecycle operations. *)

\* the account holds no key: never opened, or closed
Closed == privKey = None /\ extPub = None /\ intPub = None
\* the account holds the keys a successful open() leaves
IsOpen == privKey # None /\ extPub # None /\ intPub # None

NotOpenError == "NotOpenError"
OwnedAddresses == ExternalSet \cup InternalSet

\* the external indexes (from 0) whose address has transaction activity
UsedExternal ==
    {i \in 0..(Len(externalAddresses) - 1) : externalAddresses[i + 1] \in DOMAIN txs}
\* h: the highest of them
HighestUsedIndex == CHOOSE h \in UsedExternal : \A i \in UsedExternal : i <= h
\* the external list only grew at its end
ExternalPrefixKept ==
    /\ Len(externalAddresses') >= Len(externalAddresses)
    /\ SubSeq(externalAddresses', 1, Len(externalAddresses)) = externalAddresses

\* C1: on a closed account generateNextPaymentAddress, getNextPaymentAddress
\* (when the external list must grow), getChangeAddress and
\* getPrivKeyForAddress (for an address of the account) each fail with a
\* NotOpenError and no other error.
C1_ClosedCallsRaiseNotOpenError ==
    [][Closed =>
        /\ GenerateNextPaymentAddress => err' = NotOpenError
        /\ (GetNextPaymentAddress /\ cursor + 1 >= Len(externalAddresses))
              => err' = NotOpenError
        /\ GetChangeAddress => err' = NotOpenError
        /\ \A addr \in OwnedAddresses :
              GetPrivKeyForAddress(addr) => err' = NotOpenError]_vars

\* C2: after close() every key buffer that open() decrypted or derived (the
\* private key, the neutered public key, both branch public keys) is
\* zero-filled and privKey, extPub, intPub are absent.
C2_CloseZeroesEveryKeyBuffer ==
    (op = "close" /\ err = NoErr) =>
        /\ \A b \in BufIds : mem[b] # "set"
        /\ privKey = None /\ extPub = None /\ intPub = None

\* C3: in every state reachable from construction each address list is one
\* longer than its last index; and called on an account whose index does
\* not match its list, generateNextPaymentAddress / getChangeAddress fail
\* with the index-address length mismatch Exception and change nothing.
C3_IndexMatchesAddressLists ==
    /\ Len(externalAddresses) = lastExternalIndex + 1
    /\ Len(internalAddresses) = lastInternalIndex + 1
    /\ \A d \in {-1, 1, 2} :
          LET e == [Self EXCEPT !.lastExternalIndex = @ + d]
              i == [Self EXCEPT !.lastInternalIndex = @ + d]
          IN /\ generateNextPaymentAddress(e) = Raise(e, Exception)
             /\ getChangeAddress(i) = Raise(i, Exception)

\* a call failed after both lists had grown
C3_Witness ==
    /\ op = "getNextPaymentAddress" /\ err = AttributeError
    /\ Len(externalAddresses) >= 2 /\ Len(internalAddresses) >= 1

\* n successive calls of generateNextPaymentAddress
RECURSIVE generateTimes(_, _)
generateTimes(a, n) ==
    IF n = 0 THEN a ELSE generateTimes(generateNextPaymentAddress(a).a, n - 1)

\* C4: on an open account with k external addresses, n calls of
\* generateNextPaymentAddress leave len(externalAddresses) =
\* lastExternalIndex + 1 = k + n; each call appends one address at the end,
\* returns it and does not move the cursor.
C4_GenerateAppendsOne ==
    [][(IsOpen /\ GenerateNextPaymentAddress) =>
        /\ err' = NoErr
        /\ Len(externalAddresses') = Len(externalAddresses) + 1
        /\ lastExternalIndex' + 1 = Len(externalAddresses')
        /\ ExternalPrefixKept
        /\ ret' = Some(externalAddresses'[Len(externalAddresses')])
        /\ cursor' = cursor
        /\ \A n \in 0..(MaxAddrs - Len(externalAddresses)) :
              LET b == generateTimes(Self, n)
              IN /\ Len(b.externalAddresses) = Len(externalAddresses) + n
                 /\ b.lastExternalIndex + 1 = Len(externalAddresses) + n
                 /\ b.cursor = cursor]_vars

\* the generator was called on an open account until the list was full
C4_Witness ==
    /\ op = "generateNextPaymentAddress" /\ err = NoErr /\ IsOpen
    /\ Len(externalAddresses) = MaxAddrs /\ cursor = 0

\* C5: getNextPaymentAddress() on an open account advances the cursor by
\* one, generates only as many addresses as the new cursor needs to be a
\* valid index, and returns externalAddresses[cursor].
C5_GetNextReturnsAddressAtCursor ==
    [][(IsOpen /\ GetNextPaymentAddress) =>
        /\ err' = NoErr
        /\ cursor' = cursor + 1
        /\ ExternalPrefixKept
        /\ Len(externalAddresses') = Max2(Len(externalAddresses), cursor + 2)
        /\ ret' = Some(externalAddresses'[cursor' + 1])]_vars

C7_GapAddressesPastHighestUsed ==
    [][\A gap \in 0..MaxGap :
        (IsOpen /\ UsedExternal # {} /\ GenerateGapAddresses(gap)) =>
            /\ Len(externalAddresses') - 1 - HighestUsedIndex >= gap
            /\ ExternalPrefixKept
            /\ cursor' = cursor]_vars

\* C8: after generateGapAddresses(gap) on an open account whose highest
\* touched external index is h the account has at least h + gap external
\* addresses and the cursor is unchanged.
C8_GapTotalAtLeastHighestPlusGap ==
    [][\A gap \in 0..MaxGap :
        (IsOpen /\ UsedExternal # {} /\ GenerateGapAddresses(gap)) =>
            /\ err' = NoErr
            /\ Len(externalAddresses') >= HighestUsedIndex + gap
            /\ cursor' = cursor]_vars

\* the gap was generated past a used address at index 1
C8_Witness ==
    /\ op = "generateGapAddresses" /\ err = NoErr /\ IsOpen
    /\ UsedExternal # {} /\ HighestUsedIndex = 1
    /\ Len(externalAddresses) = 3

\* C9: generateGapAddresses(gap) on a closed account logs a warning, derives
\* nothing, raises no error and leaves externalAddresses, lastExternalIndex
\* and cursor unchanged.
C9_GapOnClosedAccountOnlyWarns ==
    [][\A gap \in 0..MaxGap :
        (Closed /\ GenerateGapAddresses(gap)) =>
            /\ err' = NoErr
            /\ "attempting to generate gap addresses on a closed account" \in log'
            /\ UNCHANGED <<externalAddresses, lastExternalIndex, cursor>>]_vars

-----------------------------------------------------------------------------
(* The account under its UTXO and balance operations.  The unspent outputs *)
(* and the cached balance are fields the wallet that owns the account      *)
(* fills in (as Account.__fromjson__ assigns them from a stored record).   *)

\* the unspent outputs the exploration draws from: a confirmed one, an
\* unconfirmed one, and a confirmed coinbase output maturing at height 3
UtxoPool ==
    { UTXO(Address(EXTERNAL_BRANCH, 0), "tx1", 0, 1, Some(1), None),
      UTXO(Address(EXTERNAL_BRANCH, 0), "tx1", 1, 2, None, None),
      UTXO(Address(INTERNAL_BRANCH, 0), "tx2", 0, 4, Some(2), Some(3)) }

\* the mapping of utxo key to UTXO holding the outputs of S
UtxoMap(S) == [k \in {key(u) : u \in S} |-> CHOOSE u \in S : key(u) = k]

\* the transactions the exploration draws from: tx2 is a coinbase
TxPool == {Tx("tx1", FALSE), Tx("tx2", TRUE)}

\* the addresses given transaction activity
TxAddresses == {Address(EXTERNAL_BRANCH, 0), ForeignAddress}

\* the lists handed to spendUTXOs: one or two UTXOs of the pool
SpendLists == {IF u = v THEN <<u>> ELSE <<u, v>> : u \in UtxoPool, v \in UtxoPool}

\* the cached balance is zero, or what the whole pool amounts to at MaxTip
InitUTXO ==
    /\ \E S \in SUBSET UtxoPool :
       \E b \in (IF S = UtxoPool THEN {Balance(0, 0), Balance(7, 5)} ELSE {Balance(0, 0)}) :
          IsAccount([Account(PubEncrypted(XKey({}, {})),
                             PrivEncrypted(XKey({}, {})),
                             DEFAULT_ACCOUNT_NAME)
                        EXCEPT !.utxos = UtxoMap(S), !.balance = b])
    /\ op = "__init__"
    /\ err = NoErr
    /\ ret = None
    /\ returned = {}
    /\ cm = None
    /\ am = None
    /\ tw = None

AddUTXO(u) ==
    /\ Store("addUTXO", addUTXO(Self, u))
    /\ UNCHANGED <<returned, cm, am, tw>>

SpendTxidVout(txid, vout) ==
    /\ Store("spendTxidVout", spendTxidVout(Self, txid, vout))
    /\ UNCHANGED <<returned, cm, am, tw>>

SpendUTXOs(us) ==
    /\ Store("spendUTXOs", spendUTXOs(Self, us))
    /\ UNCHANGED <<returned, cm, am, tw>>

CalcBalance(tipHeight) ==
    /\ Store("calcBalance", calcBalance(Self, tipHeight))
    /\ UNCHANGED <<returned, cm, am, tw>>

AddMempoolTx(tx) ==
    /\ Store("addMempoolTx", addMempoolTx(Self, tx))
    /\ UNCHANGED <<returned, cm, am, tw>>

ConfirmTx(tx, blockHeight) ==
    /\ Store("confirmTx", confirmTx(Self, tx, blockHeight))
    /\ UNCHANGED <<returned, cm, am, tw>>

AddressesOfInterest ==
    /\ Store("addressesOfInterest", addressesOfInterest(Self))
    /\ UNCHANGED <<returned, cm, am, tw>>

NextUTXO ==
    \/ AddressesOfInterest
    \/ \E u \in UtxoPool : AddUTXO(u)
    \/ \E tx \in TxPool : AddMempoolTx(tx)
    \/ \E tx \in TxPool, blockHeight \in 1..MaxTip : ConfirmTx(tx, blockHeight)
    \/ \E addr \in TxAddresses, txid \in TxIds : AddTx(addr, txid)
    \/ \E txid \in TxIds, vout \in {0, 1} : SpendTxidVout(txid, vout)
    \/ \E us \in SpendLists : SpendUTXOs(us)
    \/ \E tipHeight \in 0..MaxTip : CalcBalance(tipHeight)

SpecUTXO == InitUTXO /\ [][NextUTXO]_vars

-----------------------------------------------------------------------------
(* Properties of the UTXO and balance operations. *)

UtxoValues == {utxos[k] : k \in DOMAIN utxos}

RECURSIVE SumSatoshis(_)
SumSatoshis(S) ==
    IF S = {} THEN 0
    ELSE LET u == CHOOSE x \in S : TRUE
         IN u.satoshis + SumSatoshis(S \ {u})

\* the outputs spendable at a tip: confirmed, and without maturity or mature
Spendable(tipHeight) ==
    {u \in UtxoValues :
        isConfirmed(u) /\ (u.maturity = None \/ u.maturity[1] <= tipHeight)}

\* C10: calcBalance(tipHeight) sets and returns the balance with total the
\* sum of the amounts of all UTXOs and available the sum over the confirmed
\* UTXOs without maturity or with maturity <= tipHeight, overwriting the
\* cached total and available.
C10_CalcBalanceSumsUtxos ==
    [][\A tipHeight \in 0..MaxTip :
        CalcBalance(tipHeight) =>
            /\ err' = NoErr
            /\ balance'.total = SumSatoshis(UtxoValues)
            /\ balance'.available = SumSatoshis(Spendable(tipHeight))
            /\ ret' = Some(balance')]_vars

C12_CalcBalanceIdempotent ==
    [][\A tipHeight \in 0..MaxTip :
        CalcBalance(tipHeight) =>
            LET second == calcBalance(Self', tipHeight)
            IN /\ err' = NoErr
               /\ second.err = NoErr
               /\ second.ret = ret'
               /\ second.a = Self']_vars

\* C13: spending a UTXO the account holds lowers the total calcBalance(tip)
\* gives by exactly that UTXO's amount, and spending an absent (txid, vout)
\* leaves the total and available calcBalance(tip) gives as they were.
C13_SpendLowersTotalByAmount ==
    [][\A txid \in TxIds, vout \in 0..1, tipHeight \in 0..MaxTip :
        SpendTxidVout(txid, vout) =>
            LET before == calcBalance(Self, tipHeight)
                after == calcBalance(Self', tipHeight)
                k == makeKey(txid, vout)
            IN /\ before.err = NoErr
               /\ after.err = NoErr
               /\ IF k \in DOMAIN utxos
                  THEN after.ret[1].total = before.ret[1].total - utxos[k].satoshis
                  ELSE /\ after.ret[1].total = before.ret[1].total
                       /\ after.ret[1].available = before.ret[1].available]_vars

\* the keys of a list of UTXOs
KeysOf(us) == {key(us[i]) : i \in 1..Len(us)}

\* what a spend leaves alone besides the other utxos entries
SpendFrame == UNCHANGED <<txs, mempool, externalAddresses, internalAddresses, cursor>>

\* C14: spendTxidVout and spendUTXOs raise nothing, remove from utxos exactly
\* the entries whose key matches and leave every other utxos entry, txs,
\* mempool, the address lists and the cursor as they were; spending the same
\* keys again changes nothing, so spending twice equals spending once.
C14_SpendRemovesOnlyMatchingKeys ==
    [][/\ \A txid \in TxIds, vout \in 0..1 :
            SpendTxidVout(txid, vout) =>
                LET again == spendTxidVout(Self', txid, vout)
                IN /\ err' = NoErr
                   /\ utxos' = [x \in DOMAIN utxos \ {makeKey(txid, vout)} |-> utxos[x]]
                   /\ SpendFrame
                   /\ again.err = NoErr
                   /\ again.a = Self'
       /\ \A us \in SpendLists :
            SpendUTXOs(us) =>
                LET again == spendUTXOs(Self', us)
                IN /\ err' = NoErr
                   /\ utxos' = [x \in DOMAIN utxos \ KeysOf(us) |-> utxos[x]]
                   /\ SpendFrame
                   /\ again.err = NoErr
                   /\ again.a = Self']_vars

\* a spend has removed an output while another output of the same
\* transaction, a mempool entry and a transaction list stayed
C14_Witness ==
    /\ op = "spendTxidVout"
    /\ ret # None
    /\ ret[1].txid = "tx1"
    /\ \E k \in DOMAIN utxos : k[1] = "tx1"
    /\ DOMAIN mempool # {}
    /\ DOMAIN txs # {}

\* C15: addUTXO(u) stores u in utxos under its (txid, vout) key, so that
\* getUTXO(u.txid, u.vout) returns u and utxoscan() yields it; a key already
\* there is replaced, no other entry changes.
C15_AddUTXOStoresUnderKey ==
    [][\A u \in UtxoPool :
        AddUTXO(u) =>
            /\ err' = NoErr
            /\ getUTXO(Self', u.txid, u.vout).ret = Some(u)
            /\ u \in utxoscan(Self')
            /\ DOMAIN utxos' = DOMAIN utxos \cup {key(u)}
            /\ \A k \in DOMAIN utxos \ {key(u)} : utxos'[k] = utxos[k]]_vars

\* C16: addMempoolTx(tx) makes tx.txid() a key of mempool holding tx, one
\* entry per txid; confirmTx(tx, blockHeight) leaves tx.txid() absent from
\* mempool whether or not it was there and whatever UTXOs the account
\* tracks; both leave the other mempool entries as they were.
C16_MempoolAddAndConfirm ==
    [][/\ \A tx \in TxPool :
            AddMempoolTx(tx) =>
                /\ err' = NoErr
                /\ mempool' = [k \in DOMAIN mempool \cup {tx.txid} |->
                                  IF k = tx.txid THEN tx ELSE mempool[k]]
       /\ \A tx \in TxPool, blockHeight \in 1..MaxTip :
            ConfirmTx(tx, blockHeight) =>
                mempool' = [k \in DOMAIN mempool \ {tx.txid} |-> mempool[k]]]_vars

\* confirmTx has run for tx1 on an account tracking an output of tx1, and
\* the mempool entry of tx2 stayed
C16_Witness ==
    /\ op = "confirmTx"
    /\ DOMAIN mempool = {"tx2"}
    /\ \E k \in DOMAIN utxos : k[1] = "tx1"

\* C17: confirmTx(tx, blockHeight) sets height = blockHeight on every UTXO of
\* utxos whose txid is tx.txid() and on no other, and for a coinbase-like tx
\* also maturity = blockHeight + CoinbaseMaturity, the maturity staying as it
\* was otherwise.
C17_ConfirmSetsHeightAndMaturity ==
    [][\A tx \in TxPool, blockHeight \in 1..MaxTip :
        ConfirmTx(tx, blockHeight) =>
            /\ err' = NoErr
            /\ utxos' = [k \in DOMAIN utxos |->
                           IF utxos[k].txid = tx.txid
                           THEN [utxos[k] EXCEPT
                                    !.height = Some(blockHeight),
                                    !.maturity = IF tx.looksLikeCoinbase
                                                 THEN Some(blockHeight + CoinbaseMaturity)
                                                 ELSE @]
                           ELSE utxos[k]]]_vars

\* no transaction list names a txid twice
NoDuplicateTxs ==
    \A a \in DOMAIN txs : \A i, j \in 1..Len(txs[a]) : txs[a][i] = txs[a][j] => i = j

\* C18: addTx(address, txid) appends txid to the end of txs[address],
\* creating the list for a new address, when the txid is not in it and
\* changes nothing when it is; every list stays free of duplicates, in the
\* order of first insertion, and addrTxs(address) returns that list, the
\* empty list for an address without one.
C18_AddTxAppendsOnce ==
    [][\A addr \in TxAddresses, txid \in TxIds :
        AddTx(addr, txid) =>
            LET old == IF addr \in DOMAIN txs THEN txs[addr] ELSE <<>>
            IN /\ err' = NoErr
               /\ DOMAIN txs' = DOMAIN txs \cup {addr}
               /\ txs'[addr] = IF Contains(old, txid) THEN old ELSE Append(old, txid)
               /\ \A x \in DOMAIN txs \ {addr} : txs'[x] = txs[x]
               /\ NoDuplicateTxs'
               /\ addrTxs(Self', addr).ret = Some(txs'[addr])
               /\ \A x \in TxAddresses \ DOMAIN txs' :
                      addrTxs(Self', x).ret = Some(<<>>)]_vars

\* a txid was given again to a list that keeps tx2 before tx1
C18_Witness ==
    /\ op = "addTx"
    /\ \E a \in DOMAIN txs : txs[a] = <<"tx2", "tx1">>
    /\ DOMAIN txs # TxAddresses

\* privKey.child(branch).child(i) on the open account's private key
DerivedKey(branch, i) ==
    LET branchKey == child(privKey[1], branch)
    IN IF branchKey.err # NoErr THEN branchKey ELSE child(branchKey.key, i)

\* the call ended as the derivation of <<branch, i>> ends: with its signing
\* key, or with the error the derivation raises
EndsAsDerived(branch, i) ==
    LET d == DerivedKey(branch, i)
    IN /\ err' = d.err
       /\ d.err = NoErr => ret' = Some(privKeyFromBytes(d.key))

\* C19: on an open account getPrivKeyForAddress(address) derives the key as
\* privKey.child(0).child(i) for an address at index i of externalAddresses
\* and as privKey.child(1).child(i) for one at index i of internalAddresses;
\* for an address in neither list it fails with the unknown-address
\* Exception, derives nothing and changes nothing.
C19_PrivKeyDerivedAtBranchAndIndex ==
    [][\A addr \in KnownAddresses :
        (IsOpen /\ GetPrivKeyForAddress(addr)) =>
            /\ \A i \in 0..(Len(externalAddresses) - 1) :
                  externalAddresses[i + 1] = addr => EndsAsDerived(EXTERNAL_BRANCH, i)
            /\ \A i \in 0..(Len(internalAddresses) - 1) :
                  internalAddresses[i + 1] = addr => EndsAsDerived(INTERNAL_BRANCH, i)
            /\ addr \notin ExternalSet \cup InternalSet =>
                  /\ err' = Exception
                  /\ ret' = None
                  /\ Self' = Self]_vars

\* the key of the first change address was derived on the internal branch
\* of an account that also has external addresses
C19_Witness ==
    /\ op = "getPrivKeyForAddress"
    /\ err = NoErr
    /\ ret = Some(<<"privKey", INTERNAL_BRANCH, 0>>)
    /\ Len(externalAddresses) > 1

(***************************************************************************)
(* The specification of createNewAccountManager: one call, statement by    *)
(* statement, on arguments drawn in InitCreate.                            *)
(***************************************************************************)
\* the seeds: usable ones, scalars at and outside the range ends, a seed too
\* short, and seeds whose account keys fail at a branch or at a child
Seeds ==
    { Seed(32, 1, XKey({}, {}), XKey({}, {})),
      Seed(32, MAX_SECRET_INT, XKey({}, {}), XKey({}, {})),
      Seed(32, MAX_SECRET_INT + 1, XKey({}, {}), XKey({}, {})),
      Seed(32, 0, XKey({}, {}), XKey({}, {})),
      Seed(MinSeedBytes - 1, 1, XKey({}, {}), XKey({}, {})),
      Seed(MaxSeedBytes, 2, XKey({}, {}), XKey({}, {<<EXTERNAL_BRANCH, 0>>})),
      Seed(32, 3, XKey({}, {}), XKey({}, {<<EXTERNAL_BRANCH, 1>>})),
      Seed(32, 4, XKey({}, {}), XKey({EXTERNAL_BRANCH}, {})),
      Seed(32, 5, XKey({INTERNAL_BRANCH}, {}), XKey({}, {})) }

\* the passphrases, as byte strings
Passphrases == {<<>>, <<"p">>}

InitCreate ==
    /\ IsAccount(Account(PubEncrypted(XKey({}, {})),
                         PrivEncrypted(XKey({}, {})),
                         DEFAULT_ACCOUNT_NAME))
    /\ op = "__init__"
    /\ err = NoErr
    /\ ret = None
    /\ returned = {}
    /\ \E seed \in Seeds, pubPassphrase \in Passphrases, privPassphrase \in Passphrases,
          chainParams \in Networks :
          cm = Activation(seed, pubPassphrase, privPassphrase, chainParams)
    /\ am = None
    /\ tw = None

CreateStep ==
    /\ cm.pc \notin {"done", "raised"}
    /\ cm' = createNewAccountManager(cm)
    /\ UNCHANGED <<pubKeyEncrypted, privKeyEncrypted, name, net, lastExternalIndex,
                   lastInternalIndex, externalAddresses, internalAddresses, cursor,
                   balance, mempool, txs, utxos, privKey, extPub, intPub, mem,
                   orphans, log, op, err, ret, returned, am, tw>>

NextCreate == CreateStep

SpecCreate == InitCreate /\ [][NextCreate]_vars

\* nothing of the key hierarchy exists: no root key, no derived key, no
\* SecretKey, no crypto key, no ciphertext, no Account, no manager
NothingMade(c) ==
    /\ c.root = None
    /\ c.coinTypeLegacyKeyPriv = None /\ c.coinTypeSLIP0044KeyPriv = None
    /\ c.acctKeyLegacyPriv = None /\ c.acctKeySLIP0044Priv = None
    /\ c.acctKeyLegacyPub = None /\ c.acctKeySLIP0044Pub = None
    /\ c.masterKeyPub = None /\ c.masterKeyPriv = None
    /\ c.cryptoKeyPub = None /\ c.cryptoKeyPriv = None /\ c.cryptoKeyScript = None
    /\ c.encrypted = None
    /\ c.baseAccount = None /\ c.zerothAccount = None
    /\ c.manager = None

\* C20: createNewAccountManager called with an empty private passphrase
\* fails with the configuration Exception at its first statement: before the
\* root key is derived, before any SecretKey or random crypto key is
\* generated and before any Account is constructed.
C20_EmptyPrivPassphraseRejectedFirst ==
    [][(CreateStep /\ Len(cm.privPassphrase) = 0) =>
          /\ cm'.pc = "raised"
          /\ cm'.err = Exception
          /\ NothingMade(cm')]_vars

\* the call with an empty private passphrase and a usable seed has raised
C20_Witness ==
    /\ cm.pc = "raised"
    /\ cm.privPassphrase = <<>>
    /\ cm.pubPassphrase # <<>>
    /\ newMaster(cm.seed, cm.chainParams).err = NoErr

(***************************************************************************)
(* The specification of the AccountManager: a manager as                   *)
(* createNewAccountManager returns it, then openAccount, addAccount and    *)
(* account(idx).close() in any order.                                      *)
(***************************************************************************)
\* createNewAccountManager run to its return or its exception
RECURSIVE runToEnd(_)
runToEnd(c) ==
    IF c.pc \in {"done", "raised"} THEN c ELSE runToEnd(createNewAccountManager(c))

\* the managers createNewAccountManager returns for the seeds and passphrases
Managers ==
    {c.manager[1] :
        c \in {d \in {runToEnd(Activation(seed, pubPassphrase, privPassphrase, chainParams)) :
                         seed \in Seeds, pubPassphrase \in Passphrases,
                         privPassphrase \in Passphrases, chainParams \in Networks} :
                   d.pc = "done"}}

\* the indexes and passwords given to the manager
AccountIndexes == (0 - MaxAccounts - 1)..MaxAccounts
ManagerPasswords == Passphrases \cup {<<"q">>}

InitManager ==
    /\ IsAccount(Account(PubEncrypted(XKey({}, {})),
                         PrivEncrypted(XKey({}, {})),
                         DEFAULT_ACCOUNT_NAME))
    /\ op = "createNewAccountManager"
    /\ err = NoErr
    /\ ret = None
    /\ returned = {}
    /\ cm = None
    /\ am \in Managers
    /\ tw = None

\* a call on the manager leaves the variables of the single account alone
ManagerFrame ==
    UNCHANGED <<pubKeyEncrypted, privKeyEncrypted, name, net, lastExternalIndex,
                lastInternalIndex, externalAddresses, internalAddresses, cursor,
                balance, mempool, txs, utxos, privKey, extPub, intPub, mem,
                orphans, log, returned, cm, tw>>

OpenAccount(acct, n, pw) ==
    /\ LET r == openAccount(am, acct, n, pw)
       IN /\ am' = r.m
          /\ err' = r.err
          /\ ret' = r.ret
    /\ op' = "openAccount"
    /\ ManagerFrame

\* addAccount with the manager's base account, a second account whose keys
\* are encrypted with the manager's crypto keys
AddAccount ==
    /\ Len(am.accounts) < MaxAccounts
    /\ am' = addAccount(am, am.baseAccount)
    /\ op' = "addAccount"
    /\ err' = NoErr
    /\ ret' = None
    /\ ManagerFrame

\* manager.account(idx).close()
CloseAccount(idx) ==
    /\ LET g == account(am, idx)
       IN IF g.err # NoErr
          THEN am' = am /\ err' = g.err
          ELSE LET r == close(g.ret[1].account)
               IN /\ am' = [am EXCEPT !.accounts[g.ret[1].index + 1] = r.a]
                  /\ err' = r.err
    /\ ret' = None
    /\ op' = "close"
    /\ ManagerFrame

NextManager ==
    \/ \E acct \in AccountIndexes, n \in Networks, pw \in ManagerPasswords :
          OpenAccount(acct, n, pw)
    \/ AddAccount
    \/ \E idx \in AccountIndexes : CloseAccount(idx)

SpecManager == InitManager /\ [][NextManager]_vars

\* the passphrase the manager's private master key was derived from
PrivPassphraseOf(m) == m.cryptoKeyPrivEnc.encryptedWith.secretKeyOf

\* an account record is closed / open
AccountClosed(a) == a.privKey = None /\ a.extPub = None /\ a.intPub = None

\* C21: openAccount(index, net, password) with an index outside
\* 0 .. len(accounts)-1 fails with the not-found error (IndexError, the one
\* error the lookup can raise) and opens no account; stated for the right
\* password, so that no other failure comes first.
C21_OpenAccountBadIndexNotFound ==
    [][\A acct \in AccountIndexes, n \in Networks, pw \in ManagerPasswords :
        (/\ OpenAccount(acct, n, pw)
         /\ pw = PrivPassphraseOf(am)
         /\ acct \notin 0..(Len(am.accounts) - 1)) =>
            /\ err' = IndexError
            /\ am' = am]_vars

\* C22: openAccount(index, net, password) with a password that is not the
\* private passphrase the manager was created with fails with the
\* decryption (authentication) error and changes nothing: a closed target
\* account stays closed, and no field of any account changes.
C22_OpenAccountWrongPassword ==
    [][\A acct \in AccountIndexes, n \in Networks, pw \in ManagerPasswords :
        (OpenAccount(acct, n, pw) /\ pw # PrivPassphraseOf(am)) =>
            /\ err' = DecryptionError
            /\ ret' = None
            /\ am' = am
            /\ \A i \in 1..Len(am.accounts) :
                  AccountClosed(am.accounts[i]) => AccountClosed(am'.accounts[i])]_vars

\* a wrong password was refused by a manager of two closed accounts
C22_Witness ==
    /\ op = "openAccount"
    /\ err = DecryptionError
    /\ Len(am.accounts) = 2
    /\ \A i \in 1..2 : AccountClosed(am.accounts[i])

\* C23: an openAccount(index, net, password) that succeeds returns the
\* account at position index, which is then open: it holds the decrypted
\* private extended key, the external and internal branch keys of its
\* neutered key and net; no other account and no other field of the manager
\* changes.
C23_OpenAccountOpensTheAccount ==
    [][\A acct \in AccountIndexes, n \in Networks, pw \in ManagerPasswords :
        (OpenAccount(acct, n, pw) /\ err' = NoErr /\ acct \in 0..(Len(am.accounts) - 1)) =>
            LET a == am'.accounts[acct + 1]
                xkey == am.accounts[acct + 1].privKeyEncrypted.plain.xkey
            IN /\ ret' = Some([index |-> acct, account |-> a])
               /\ a.privKey = Some(ExtendedKey(xkey, <<>>, TRUE))
               /\ a.extPub = Some(ExtendedKey(xkey, <<EXTERNAL_BRANCH>>, FALSE))
               /\ a.intPub = Some(ExtendedKey(xkey, <<INTERNAL_BRANCH>>, FALSE))
               /\ a.net = Some(n)
               /\ am' = [am EXCEPT !.accounts[acct + 1] = a]
               /\ a = [am.accounts[acct + 1] EXCEPT
                          !.privKey = a.privKey, !.extPub = a.extPub,
                          !.intPub = a.intPub, !.net = a.net, !.mem = a.mem,
                          !.orphans = a.orphans]]_vars

\* the second of two accounts was opened while the first stayed closed
C23_Witness ==
    /\ op = "openAccount"
    /\ err = NoErr
    /\ Len(am.accounts) = 2
    /\ ret[1].index = 1
    /\ AccountClosed(am.accounts[1])
    /\ ~AccountClosed(am.accounts[2])

\* the manager of a finished call: its list holds the zeroth account alone,
\* closed, with one external address and no internal one
ManagerAsReturned(c) ==
    LET m == c.manager[1]
        z == m.accounts[1]
    IN /\ Len(m.accounts) = 1
       /\ z.pubKeyEncrypted = c.encrypted[1].acctPubSLIP0044Enc
       /\ z.privKeyEncrypted = c.encrypted[1].acctPrivSLIP0044Enc
       /\ AccountClosed(z)
       /\ Len(z.externalAddresses) = 1
       /\ z.lastExternalIndex = 0
       /\ z.cursor = 0
       /\ z.internalAddresses = <<>>
       /\ z.lastInternalIndex = -1

\* C24: the manager createNewAccountManager returns lists exactly the zeroth
\* (SLIP0044) account, closed, with one external address (lastExternalIndex
\* and cursor 0) and no internal address; on the way the zeroth account was
\* opened, then given its first address while open, then closed, and only
\* then the manager was made and returned.
C24_ManagerHoldsClosedZerothAccount ==
    [][CreateStep =>
        /\ cm'.pc = "generate" =>
              /\ cm.pc = "open"
              /\ AccountClosed(cm.zerothAccount[1])
              /\ ~AccountClosed(cm'.zerothAccount[1])
              /\ cm'.zerothAccount[1].externalAddresses = <<>>
        /\ cm'.pc = "close" =>
              /\ cm.pc = "generate"
              /\ ~AccountClosed(cm'.zerothAccount[1])
              /\ Len(cm'.zerothAccount[1].externalAddresses) = 1
        /\ cm'.pc = "zero" =>
              /\ cm.pc = "close"
              /\ AccountClosed(cm'.zerothAccount[1])
              /\ cm'.zerothAccount[1].externalAddresses = cm.zerothAccount[1].externalAddresses
        /\ cm'.pc = "manager" => cm.pc = "zero"
        /\ cm'.pc = "done" =>
              /\ cm.pc = "manager"
              /\ cm'.manager[1].accounts = <<cm.zerothAccount[1]>>
              /\ ManagerAsReturned(cm')]_vars

\* a manager was returned whose zeroth account differs from the base account
C24_Witness ==
    /\ cm.pc = "done"
    /\ cm.manager[1].accounts[1] # cm.manager[1].baseAccount
    /\ cm.manager[1].accounts[1].externalAddresses = <<CrazyAddress>>

\* C25: when createNewAccountManager returns, the crypto-priv and
\* crypto-script key buffers are zero-filled, and they were zeroed after
\* their last use: the statements that encrypt with them and the opening of
\* the zeroth account find them set, and once zeroed only the statement that
\* builds the manager from the ciphertexts remains.
C25_WorkingKeysZeroedAfterLastUse ==
    [][CreateStep =>
        /\ cm'.pc = "done" =>
              /\ cm'.cryptoKeyPriv = Some("zero")
              /\ cm'.cryptoKeyScript = Some("zero")
              /\ cm'.manager[1].cryptoKeyPrivEnc.plain = CryptoKeyPriv
              /\ cm'.manager[1].cryptoKeyScriptEnc.plain = "cryptoKeyScript"
              /\ cm'.manager[1].accounts[1].privKeyEncrypted.encryptedWith = CryptoKeyPriv
        /\ cm.pc \in {"encrypt", "open"} =>
              /\ cm.cryptoKeyPriv = Some("set")
              /\ cm.cryptoKeyScript = Some("set")
        /\ (cm.cryptoKeyPriv = Some("zero") \/ cm.cryptoKeyScript = Some("zero")) =>
              cm.pc = "manager"]_vars

\* the call returned with both working keys zeroed and the public one set
C25_Witness ==
    /\ cm.pc = "done"
    /\ cm.cryptoKeyPriv = Some("zero")
    /\ cm.cryptoKeyScript = Some("zero")
    /\ cm.cryptoKeyPub = Some("set")
    /\ cm.manager[1].accounts[1].externalAddresses = <<Address(EXTERNAL_BRANCH, 0)>>

\* C26: newMaster accepts the scalar of the seed exactly when
\* 0 < scalar < curve order (MAX_SECRET_INT is the order of the curve); for
\* 0 and for every scalar >= the order it raises KeyLengthException and
\* gives no key.
C26_NewMasterScalarRange ==
    [][(CreateStep /\ cm.pc = "newMaster"
          /\ cm.seed.len >= MinSeedBytes /\ cm.seed.len <= MaxSeedBytes) =>
            IF 0 < cm.seed.secretInt /\ cm.seed.secretInt < MAX_SECRET_INT
            THEN cm'.err = NoErr /\ cm'.root # None
            ELSE cm'.err = KeyLengthException /\ cm'.root = None /\ cm'.pc = "raised"]_vars

\* C27: addressesOfInterest() fails in no state, an account without external
\* addresses included, and returns exactly the address of every UTXO of
\* utxos plus the 10 most recent external addresses up to and including the
\* cursor position, fewer when fewer exist.
C27_AddressesOfInterestWindow ==
    [][AddressesOfInterest =>
        /\ err' = NoErr
        /\ ret' = Some({utxos[k].address : k \in DOMAIN utxos}
                       \cup {externalAddresses[i + 1] :
                               i \in {j \in Max2(cursor - 9, 0)..cursor :
                                         j < Len(externalAddresses)}})]_vars

\* the address the derivation at <<branch, idx>> gives the account: the
\* sentinel when it fails with the range error
DerivedOrCrazy(pub, idx) ==
    LET d == deriveChildAddress(pub[1], idx, net)
    IN IF d.err = ParameterRangeError THEN CrazyAddress ELSE d.addr

\* C28: when the derivation of the next external (internal) address fails
\* with the range error, generateNextPaymentAddress (getChangeAddress) raises
\* nothing: it appends the sentinel at that position, advances the branch's
\* last index by one and returns the sentinel; the next call derives at the
\* following index.
C28_RangeErrorGivesSentinel ==
    [][/\ (/\ GenerateNextPaymentAddress
           /\ extPub # None
           /\ Len(externalAddresses) = lastExternalIndex + 1
           /\ deriveChildAddress(extPub[1], lastExternalIndex + 1, net).err
                 = ParameterRangeError) =>
             LET later == generateNextPaymentAddress(Self')
             IN /\ err' = NoErr
                /\ ret' = Some(CrazyAddress)
                /\ externalAddresses' = Append(externalAddresses, CrazyAddress)
                /\ lastExternalIndex' = lastExternalIndex + 1
                /\ later.err = NoErr
                /\ later.a.lastExternalIndex = lastExternalIndex + 2
                /\ later.a.externalAddresses =
                      Append(externalAddresses', DerivedOrCrazy(extPub, lastExternalIndex + 2))
       /\ (/\ GetChangeAddress
           /\ intPub # None
           /\ Len(internalAddresses) = lastInternalIndex + 1
           /\ deriveChildAddress(intPub[1], lastInternalIndex + 1, net).err
                 = ParameterRangeError) =>
             LET later == getChangeAddress(Self')
             IN /\ err' = NoErr
                /\ ret' = Some(CrazyAddress)
                /\ internalAddresses' = Append(internalAddresses, CrazyAddress)
                /\ lastInternalIndex' = lastInternalIndex + 1
                /\ later.err = NoErr
                /\ later.a.lastInternalIndex = lastInternalIndex + 2
                /\ later.a.internalAddresses =
                      Append(internalAddresses', DerivedOrCrazy(intPub, lastInternalIndex + 2))]_vars

\* a derivation failed at index 0 and the next call derived index 1
C28_Witness ==
    /\ op = "generateNextPaymentAddress"
    /\ externalAddresses = <<CrazyAddress, Address(EXTERNAL_BRANCH, 1)>>
    /\ lastExternalIndex = 1

\* every address of a list differs from the addresses at the other places
\* of the two lists
AtOnePosition ==
    /\ \A i, j \in 1..Len(externalAddresses) :
          externalAddresses[i] = externalAddresses[j] => i = j
    /\ \A i, j \in 1..Len(internalAddresses) :
          internalAddresses[i] = internalAddresses[j] => i = j
    /\ \A i \in 1..Len(externalAddresses), j \in 1..Len(internalAddresses) :
          externalAddresses[i] # internalAddresses[j]

\* C29: in every reachable state each address of externalAddresses and
\* internalAddresses occurs at exactly one (branch, index) position, after
\* derivation-range failures too, and branchAndIndex gives that position.
C29_AddressAtOnePosition ==
    /\ AtOnePosition
    /\ \A i \in 1..Len(externalAddresses) :
          branchAndIndex(Self, externalAddresses[i])
            = <<Some(EXTERNAL_BRANCH), Some(i - 1)>>
    /\ \A i \in 1..Len(internalAddresses) :
          branchAndIndex(Self, internalAddresses[i])
            = <<Some(INTERNAL_BRANCH), Some(i - 1)>>

\* two accounts agree in the fields of the data model
SameData(a, b) ==
    /\ a.pubKeyEncrypted = b.pubKeyEncrypted
    /\ a.privKeyEncrypted = b.privKeyEncrypted
    /\ a.name = b.name
    /\ a.externalAddresses = b.externalAddresses
    /\ a.internalAddresses = b.internalAddresses
    /\ a.lastExternalIndex = b.lastExternalIndex
    /\ a.lastInternalIndex = b.lastInternalIndex
    /\ a.cursor = b.cursor
    /\ a.txs = b.txs
    /\ a.utxos = b.utxos
    /\ a.balance.total = b.balance.total
    /\ a.balance.available = b.balance.available

\* C30: for every reachable account, Account.__fromjson__ of its
\* Account.__tojson__ record succeeds and gives a closed account equal to it
\* in the fields of the data model; and AccountManager.__fromjson__ of the
\* manager's AccountManager.__tojson__ record succeeds and restores the
\* encrypted blobs, the parameters, watchingOnly and the accounts in order.
C30_JsonRoundTrip ==
    /\ \A i \in 1..Len(am.accounts) :
          LET r == Account_fromjson(Account_tojson(am.accounts[i]))
          IN /\ r.err = NoErr
             /\ AccountClosed(r.acct[1])
             /\ SameData(r.acct[1], am.accounts[i])
    /\ LET r == AccountManager_fromjson(AccountManager_tojson(am))
       IN /\ r.err = NoErr
          /\ Len(r.manager[1].accounts) = Len(am.accounts)
          /\ \A i \in 1..Len(am.accounts) :
                SameData(r.manager[1].accounts[i], am.accounts[i])
          /\ [r.manager[1] EXCEPT !.accounts = <<>>, !.baseAccount = None]
               = [am EXCEPT !.accounts = <<>>, !.baseAccount = None]

\* the child key at (branch, idx) below an account key, or the error of the
\* derivation that fails; the child address is the address of this key
ChildAt(k, branch, idx) ==
    LET b == child(k, branch)
    IN IF b.err # NoErr THEN b ELSE child(b.key, idx)

\* the account-0 key of manager m through the private path: the crypto key
\* decrypted with the passphrase privPw decrypts the private account key,
\* which is neutered
PubFromPriv(m, n, privPw) ==
    LET cryptKeyPriv == decrypt(rekey(privPw, m.privParams), m.cryptoKeyPrivEnc)
    IN IF cryptKeyPriv.err # NoErr THEN [err |-> cryptKeyPriv.err, key |-> None]
       ELSE LET k == privateExtendedKey(m.accounts[1], n, cryptKeyPriv.plain[1])
            IN IF k.err # NoErr THEN k ELSE [err |-> NoErr, key |-> neuter(k.key)]

\* the account-0 key of manager m through the public path
PubFromPub(m, n, pubPw) ==
    LET cryptKeyPub == decrypt(rekey(pubPw, m.pubParams), m.cryptoKeyPubEnc)
    IN IF cryptKeyPub.err # NoErr THEN [err |-> cryptKeyPub.err, key |-> None]
       ELSE publicExtendedKey(m.accounts[1], n, cryptKeyPub.plain[1])

C32_BranchCountersIndependent ==
    [][/\ (GetChangeAddress /\ IsOpen) =>
             LET idx == lastInternalIndex + 1
                 addr == DerivedOrCrazy(intPub, idx)
             IN /\ err' = NoErr
                /\ ret' = Some(addr)
                /\ internalAddresses' = Append(internalAddresses, addr)
                /\ lastInternalIndex' = idx
                /\ UNCHANGED <<externalAddresses, lastExternalIndex, cursor, txs,
                               utxos, mempool>>
       /\ (GenerateNextPaymentAddress /\ IsOpen) =>
             /\ err' = NoErr
             /\ Len(externalAddresses') = Len(externalAddresses) + 1
             /\ lastExternalIndex' = lastExternalIndex + 1
             /\ UNCHANGED <<internalAddresses, lastInternalIndex>>]_vars

\* a change address was derived on an account that has external addresses
\* and recorded activity
C32_Witness ==
    /\ op = "getChangeAddress"
    /\ err = NoErr
    /\ internalAddresses = <<Address(INTERNAL_BRANCH, 0)>>
    /\ lastInternalIndex = 0
    /\ Len(externalAddresses) = 2
    /\ lastExternalIndex = 1
    /\ DOMAIN txs # {}

\* C33: whenever openAccount has made the plaintext crypto-priv key buffer,
\* the buffer is zero-filled when the call ends, whether it returns the
\* account or raises; and the manager holds only the ciphertexts it held
\* before.
C33_OpenAccountZeroesCryptoKey ==
    [][\A acct \in AccountIndexes, n \in Networks, pw \in ManagerPasswords :
        OpenAccount(acct, n, pw) =>
            LET r == openAccount(am, acct, n, pw)
            IN /\ r.cryptKeyPriv \in {None, Some("zero")}
               /\ [am' EXCEPT !.accounts = <<>>] = [am EXCEPT !.accounts = <<>>]]_vars

C35_ClosedMeansEveryBufferZeroed ==
    [][/\ Closed' => /\ \A b \in BufIds : mem'[b] # "set"
                    /\ orphans' = {}
       /\ (Close /\ Closed) =>
             /\ err' = NoErr
             /\ UNCHANGED <<pubKeyEncrypted, privKeyEncrypted, name, net,
                            lastExternalIndex, lastInternalIndex, externalAddresses,
                            internalAddresses, cursor, balance, mempool, txs, utxos,
                            privKey, extPub, intPub, mem, orphans>>]_vars

-----------------------------------------------------------------------------
(***************************************************************************)
(* The account of a manager under its own operations: the zeroth account   *)
(* of a manager createNewAccountManager returned, then any sequence of the *)
(* calls of Next.                                                          *)
(***************************************************************************)
InitZeroth ==
    /\ \E m \in Managers : IsAccount(m.accounts[1])
    /\ op = "createNewAccountManager"
    /\ err = NoErr
    /\ ret = None
    /\ returned = {}
    /\ cm = None
    /\ am = None
    /\ tw = None

SpecZeroth == InitZeroth /\ [][Next]_vars

\* C36: for the account in the list of a manager createNewAccountManager
\* returned, under the account's public operations (the failing calls
\* included) the cursor stays within 0 .. len(externalAddresses) - 1, so
\* paymentAddress() returns the address at the cursor, and the cursor never
\* decreases.
C36_CursorWithinExternalAddresses ==
    [][/\ 0 <= cursor'
       /\ cursor' < Len(externalAddresses')
       /\ paymentAddress(Self').err = NoErr
       /\ paymentAddress(Self').ret = Some(externalAddresses'[cursor' + 1])
       /\ cursor' >= cursor]_vars

-----------------------------------------------------------------------------
(***************************************************************************)
(* TinyWallet (tinywallet/app.py): the signal registry.  emitSignal writes *)
(* the arguments of the emit into the registry entry of each receiver and  *)
(* emits the entry on qRawSignal, which is connected to the slot signal_:  *)
(* an emit made on the thread the TinyWallet lives on runs the slot within *)
(* the emit, an emit made on another thread queues the entry for the event *)
(* loop of that thread.  The statements of an emitSignal call are steps    *)
(* that the steps of the other thread can fall between.                    *)
(***************************************************************************)
\* the emitSignal calls explored
MaxEmits == 2
\* the registry entries explored
MaxReceivers == 2

\* ui.BALANCE_SIGNAL, ui.WORKING_SIGNAL
Signals == {"balance", "working"}
\* the thread the TinyWallet lives on and a thread of the wallet's workers
Threads == {"gui", "worker"}
\* a balance, or nothing, as the arguments of an emit; no emit of app.py
\* passes keyword arguments
SignalArgs == {<<>>, <<1>>, <<2>>}
SignalKwargs == {EmptyMap}
\* the callbacks and their registration arguments
Callbacks == {"cb1", "cb2"}
UserArgs == {<<"a">>}

\* TinyWallet.__init__, lines 91-92: the empty registry, qRawSignal
\* connected; no thread is inside emitSignal, nothing is queued.  emits is
\* the history of the emitSignal calls, calls that of the receiver calls.
TinyWallet ==
    [ signalRegistry |-> EmptyMap,
      threads |-> [t \in Threads |-> None],
      queue |-> <<>>,
      emits |-> <<>>,
      calls |-> <<>>,
      warnings |-> {} ]

\* the number of entries of the registry
RECURSIVE Receivers(_, _)
Receivers(sr, sigs) ==
    IF sigs = {} THEN 0
    ELSE LET sig == CHOOSE x \in sigs : TRUE
         IN (IF sig \in DOMAIN sr THEN Len(sr[sig]) ELSE 0) + Receivers(sr, sigs \ {sig})

\* TinyWallet.registerSignal(sig, cb, *a, **k)
registerSignal(w, sig, cb, a, k) ==
    LET sr == IF sig \notin DOMAIN w.signalRegistry
              THEN [x \in DOMAIN w.signalRegistry \cup {sig} |->
                       IF x = sig THEN <<>> ELSE w.signalRegistry[x]]
              ELSE w.signalRegistry
        entry == [cb |-> cb, sa |-> <<>>, a |-> a, sk |-> EmptyMap, k |-> k]
    IN [w EXCEPT !.signalRegistry = [sr EXCEPT ![sig] = Append(@, entry)]]

\* TinyWallet.signal_(s) for the entry s = sr[sig][i]: cb(*sigA, *a, **sigK,
\* **k) with what the entry holds now; emit tells which emitSignal call
\* emitted the entry
signal_(w, sig, i, emit) ==
    LET s == w.signalRegistry[sig][i]
    IN [w EXCEPT !.calls = Append(@, [emit |-> emit, sig |-> sig, i |-> i,
                                       cb |-> s.cb,
                                       args |-> s.sa \o s.a,
                                       kwargs |-> s.sk @@ s.k])]

\* TinyWallet.emitSignal(sig, *sigA, **sigK) entered on thread t: lines
\* 307-311
emitSignal(w, t, sig, sigA, sigK) ==
    LET registered == sig \in DOMAIN w.signalRegistry
        e == [sig |-> sig, sigA |-> sigA, sigK |-> sigK, thread |-> t,
              registered |-> registered,
              receivers |-> IF registered THEN Len(w.signalRegistry[sig]) ELSE 0]
        w1 == [w EXCEPT !.emits = Append(@, e)]
    IN IF ~registered
       THEN [w1 EXCEPT !.warnings = @ \cup {"attempted to call un-registered signal"}]
       ELSE [w1 EXCEPT !.threads[t] =
                Some([sig |-> sig, sigA |-> sigA, sigK |-> sigK, i |-> 1,
                      pc |-> "sa.clear", emit |-> Len(w1.emits)])]

\* the next statement of the emitSignal call thread t is in: lines 312-317
emitStep(w, t) ==
    LET c == w.threads[t][1]
        at(label) == [w EXCEPT !.threads[t] = Some([c EXCEPT !.pc = label])]
    IN CASE c.pc = "sa.clear" ->
              [at("sa.extend") EXCEPT !.signalRegistry[c.sig][c.i].sa = <<>>]
         [] c.pc = "sa.extend" ->
              [at("sk.clear") EXCEPT !.signalRegistry[c.sig][c.i].sa = @ \o c.sigA]
         [] c.pc = "sk.clear" ->
              [at("sk.update") EXCEPT !.signalRegistry[c.sig][c.i].sk = EmptyMap]
         [] c.pc = "sk.update" ->
              [at("emit") EXCEPT !.signalRegistry[c.sig][c.i].sk = c.sigK @@ @]
         [] c.pc = "emit" ->
              LET w1 == IF t = "gui"
                        THEN signal_(w, c.sig, c.i, c.emit)
                        ELSE [w EXCEPT !.queue = Append(@, [sig |-> c.sig, i |-> c.i,
                                                             emit |-> c.emit])]
              IN IF c.i < Len(w.signalRegistry[c.sig])
                 THEN [w1 EXCEPT !.threads[t] =
                          Some([c EXCEPT !.i = @ + 1, !.pc = "sa.clear"])]
                 ELSE [w1 EXCEPT !.threads[t] = None]

\* the event loop of the gui thread delivers the entry queued first
deliver(w) ==
    LET q == Head(w.queue)
    IN signal_([w EXCEPT !.queue = Tail(@)], q.sig, q.i, q.emit)

\* the account and manager variables, which the TinyWallet leaves alone
WalletFrame ==
    UNCHANGED <<pubKeyEncrypted, privKeyEncrypted, name, net, lastExternalIndex,
                lastInternalIndex, externalAddresses, internalAddresses, cursor,
                balance, mempool, txs, utxos, privKey, extPub, intPub, mem,
                orphans, log, op, err, ret, returned, cm, am>>

InitSignals ==
    /\ IsAccount(Account(PubEncrypted(XKey({}, {})), PrivEncrypted(XKey({}, {})),
                         DEFAULT_ACCOUNT_NAME))
    /\ op = "__init__"
    /\ err = NoErr
    /\ ret = None
    /\ returned = {}
    /\ cm = None
    /\ am = None
    /\ tw = TinyWallet

\* registerSignal is called by the screens, on the gui thread
RegisterSignal(sig, cb, a) ==
    /\ tw.threads["gui"] = None
    /\ Receivers(tw.signalRegistry, Signals) < MaxReceivers
    /\ tw' = registerSignal(tw, sig, cb, a, EmptyMap)
    /\ WalletFrame

EmitSignal(t, sig, sigA, sigK) ==
    /\ tw.threads[t] = None
    /\ Len(tw.emits) < MaxEmits
    /\ tw' = emitSignal(tw, t, sig, sigA, sigK)
    /\ WalletFrame

EmitStep(t) ==
    /\ tw.threads[t] # None
    /\ tw' = emitStep(tw, t)
    /\ WalletFrame

\* the gui thread runs a queued slot when it is not inside a call of its own
Signal_ ==
    /\ tw.threads["gui"] = None
    /\ tw.queue # <<>>
    /\ tw' = deliver(tw)
    /\ WalletFrame

NextSignals ==
    \/ \E sig \in Signals, cb \in Callbacks, a \in UserArgs : RegisterSignal(sig, cb, a)
    \/ \E t \in Threads, sig \in Signals, sigA \in SignalArgs, sigK \in SignalKwargs :
          EmitSignal(t, sig, sigA, sigK)
    \/ \E t \in Threads : EmitStep(t)
    \/ Signal_

SpecSignals == InitSignals /\ [][NextSignals]_vars

\* C37: every receiver call passes the signal arguments of the emitSignal
\* call it comes from, followed by the receiver's registration arguments,
\* and comes from an emit of a registered signal; no emit reaches a receiver
\* twice; and once no emit is in progress and nothing is queued, each
\* receiver that was registered for the signal when it was emitted has been
\* called once for that emit -- also when the emits follow one another
\* before the queued slot has run.
C37_EachReceiverGetsItsEmit ==
    /\ \A j \in 1..Len(tw.calls) :
          LET c == tw.calls[j]
              e == tw.emits[c.emit]
          IN /\ e.registered
             /\ c.sig = e.sig
             /\ c.args = e.sigA \o tw.signalRegistry[c.sig][c.i].a
             /\ \A l \in 1..Len(tw.calls) :
                   (tw.calls[l].emit = c.emit /\ tw.calls[l].i = c.i) => l = j
    /\ ((\A t \in Threads : tw.threads[t] = None) /\ tw.queue = <<>>) =>
          \A n \in 1..Len(tw.emits) : \A i \in 1..tw.emits[n].receivers :
              \E j \in 1..Len(tw.calls) : tw.calls[j].emit = n /\ tw.calls[j].i = i

====
